---------------------------- MODULE Spec2Model ----------------------------
(***************************************************************************)
(* City registry + settings + per-city data repository of the two          *)
(* "continuous mode" scripts:                                              *)
(*   src/Iteracion/014-clima_modo_continuo_4ciudades.py  (CLI)             *)
(*   src/Iteracion/015-clima_dashboard_flask.py          (Flask dashboard) *)
(* Both scripts keep their state under the same default directory          *)
(* "clima_live": cities.json (settings + registry) and, per city id,       *)
(* latest.json, snapshots/<ts>.json, status.json and graphs/*.png.         *)
(*                                                                         *)
(* Text (names, ids, form fields) is a sequence of one-character strings,  *)
(* so that slugify, str.strip, str.isdigit and int() are computed the way  *)
(* the code computes them.                                                 *)
(***************************************************************************)
EXTENDS Integers, Sequences, FiniteSets, TLC

(***************************************************************************)
(* Program constants                                                       *)
(***************************************************************************)
MAX_CITIES == 4

DEFAULT_INTERVAL_SECONDS == 300

DEFAULT_FORECAST_HOURS == 48

DEFAULT_SNAPSHOT_RETENTION == 24

DEFAULT_TIMEZONE == "auto"

(***************************************************************************)
(* Bounds of the model                                                     *)
(***************************************************************************)
\* the wall clock (seconds) runs from 0 to MaxClock
MaxClock == 1

\* the history keeps the last MaxHist calls of save_latest_and_snapshot
MaxHist == 3

(***************************************************************************)
(* Text helpers                                                            *)
(***************************************************************************)
LowerLetters ==
    {"a","b","c","d","e","f","g","h","i","j","k","l","m",
     "n","o","p","q","r","s","t","u","v","w","x","y","z"}

Digits == {"0","1","2","3","4","5","6","7","8","9"}

\* str.lower() on one character (the capital letters the inputs use)
LowerChar(c) ==
    CASE c = "E" -> "e"
      [] c = "I" -> "i"
      [] c = "L" -> "l"
      [] c = "M" -> "m"
      [] c = "P" -> "p"
      [] c = "R" -> "r"
      [] c = "V" -> "v"
      [] OTHER   -> c

Lower(s) == [i \in 1..Len(s) |-> LowerChar(s[i])]

RECURSIVE LStrip(_, _)
LStrip(s, chars) ==
    IF s # <<>> /\ Head(s) \in chars THEN LStrip(Tail(s), chars) ELSE s

RECURSIVE RStrip(_, _)
RStrip(s, chars) ==
    IF s # <<>> /\ s[Len(s)] \in chars
    THEN RStrip(SubSeq(s, 1, Len(s) - 1), chars)
    ELSE s

\* str.strip(chars)
Strip(s, chars) == RStrip(LStrip(s, chars), chars)

Whitespace == {" "}

\* the character class [a-z0-9_-]
SlugChars == LowerLetters \cup Digits \cup {"_", "-"}

\* re.sub(r"[^a-z0-9_-]+", "_", s): every maximal run of other characters
\* becomes one underscore
RECURSIVE SubRuns(_, _)
SubRuns(s, inRun) ==
    IF s = <<>> THEN <<>>
    ELSE IF Head(s) \in SlugChars THEN <<Head(s)>> \o SubRuns(Tail(s), FALSE)
    ELSE IF inRun THEN SubRuns(Tail(s), TRUE)
    ELSE <<"_">> \o SubRuns(Tail(s), TRUE)

\* slugify without the final 'or "city"'
slugify_no_default(text) ==
    Strip(SubRuns(Lower(Strip(text, Whitespace)), FALSE), {"_"})

slugify(text) ==
    LET t == SubRuns(Lower(Strip(text, Whitespace)), FALSE)
        u == Strip(t, {"_"})
    IN  IF u = <<>> THEN <<"c","i","t","y">> ELSE u

\* str.isdigit() for the ASCII digits
IsDigit(s) == s # <<>> /\ \A i \in 1..Len(s) : s[i] \in Digits

DigitVal(c) ==
    CASE c = "0" -> 0 [] c = "1" -> 1 [] c = "2" -> 2 [] c = "3" -> 3
      [] c = "4" -> 4 [] c = "5" -> 5 [] c = "6" -> 6 [] c = "7" -> 7
      [] c = "8" -> 8 [] OTHER -> 9

RECURSIVE DecValue(_)
DecValue(s) ==
    IF s = <<>> THEN 0
    ELSE 10 * DecValue(SubSeq(s, 1, Len(s) - 1)) + DigitVal(s[Len(s)])

\* int(s) of a stripped string: an optional sign and decimal digits;
\* ok = FALSE stands for ValueError
ParseInt(s) ==
    IF IsDigit(s) THEN [ok |-> TRUE, val |-> DecValue(s)]
    ELSE IF s # <<>> /\ Head(s) = "-" /\ IsDigit(Tail(s))
         THEN [ok |-> TRUE, val |-> 0 - DecValue(Tail(s))]
    ELSE IF s # <<>> /\ Head(s) = "+" /\ IsDigit(Tail(s))
         THEN [ok |-> TRUE, val |-> DecValue(Tail(s))]
    ELSE [ok |-> FALSE, val |-> 0]

Max(a, b) == IF a >= b THEN a ELSE b

LastN(seq, n) == IF Len(seq) <= n THEN seq ELSE SubSeq(seq, Len(seq) - n + 1, Len(seq))

(***************************************************************************)
(* The provider's geocoding data: candidates as the JSON objects of the    *)
(* response (name, admin1, country, latitude, longitude, timezone).        *)
(* Coordinates are whole degrees.  A candidate may lack admin1 and country *)
(* (the code reads them with r.get(..., "")).                              *)
(***************************************************************************)
Candidate(name, admin1, country, lat, lon, tz) ==
    [name |-> name, admin1 |-> admin1, country |-> country,
     latitude |-> lat, longitude |-> lon, timezone |-> tz]

LocMadrid   == Candidate(<<"M","a">>, <<"M">>, <<"E">>, 40, -3, "Europe/Madrid")

LocValencia == Candidate(<<"V","a">>, <<"V">>, <<"E">>, 39, 0, "Europe/Madrid")

LocLima     == Candidate(<<"L","i">>, <<"L">>, <<"P">>, -12, -77, "America/Lima")

LocRoma     == Candidate(<<"R","o">>, <<"L">>, <<"I">>, 41, 12, "Europe/Rome")

\* a place whose name is a number and that carries no region and no country
Loc7        == Candidate(<<"7">>, <<>>, <<>>, -24, 151, "Australia/Brisbane")

\* another place whose triple differs from LocMadrid's in letter case only
LocMadridLc == Candidate(<<"m","a">>, <<"m">>, <<"e">>, 4, -74, "America/Bogota")

\* a place whose name has no letter of a-z, no digit, "_" or "-"
LocAa       == Candidate(<<"Å">>, <<>>, <<>>, 68, 13, "Europe/Oslo")

\* geocoding's "results" for each query text ("zz" matches nothing)
GeoResults(query) ==
    CASE query = "ma" -> <<LocMadrid, LocValencia>>
      [] query = "li" -> <<LocLima>>
      [] query = "ro" -> <<LocRoma, LocMadridLc>>
      [] query = "7"  -> <<Loc7>>
      [] query = "va" -> <<LocValencia>>
      [] query = "aa" -> <<LocAa>>
      [] OTHER        -> <<>>

\* what one geocoding() call can do: raise a network/HTTP error, or return
\* the results (an empty list raises RuntimeError inside geocoding)
GeoOutcomes(query) ==
    {[err |-> TRUE, results |-> <<>>], [err |-> FALSE, results |-> GeoResults(query)]}

Queries == {"ma", "li", "ro", "7", "va", "aa", "zz"}

AllGeoOutcomes == UNION {GeoOutcomes(q) : q \in Queries}

\* f"{name}_{admin1}_{country}" and f"{name} · {admin1} · {country}"
CityId(loc) == slugify(loc.name \o <<"_">> \o loc.admin1 \o <<"_">> \o loc.country)

CityLabel(loc) ==
    Strip(loc.name \o <<" ", "·", " ">> \o loc.admin1 \o <<" ", "·", " ">> \o loc.country,
          {" ", "·"})

AllLocs == {LocMadrid, LocValencia, LocLima, LocRoma, Loc7, LocMadridLc, LocAa}

AllIds == {CityId(l) : l \in AllLocs}

(***************************************************************************)
(* Forecast payloads: opaque documents, told apart by a serial number;     *)
(* hourly_time says whether the document has a non-empty hourly.time.      *)
(***************************************************************************)
Payloads ==
    {[n |-> 1, hourly_time |-> TRUE], [n |-> 2, hourly_time |-> TRUE],
     [n |-> 3, hourly_time |-> FALSE]}

\* what one forecast call can do: raise, or return a payload
FetchOutcomes ==
    {[err |-> TRUE, data |-> [n |-> 0, hourly_time |-> FALSE]]}
    \cup {[err |-> FALSE, data |-> p] : p \in Payloads}

(***************************************************************************)
(* cities.json                                                             *)
(***************************************************************************)
default_config ==
    [settings |-> [interval_seconds   |-> DEFAULT_INTERVAL_SECONDS,
                   forecast_hours     |-> DEFAULT_FORECAST_HOURS,
                   timezone           |-> DEFAULT_TIMEZONE,
                   snapshot_retention |-> DEFAULT_SNAPSHOT_RETENTION],
     cities |-> <<>>]

\* the file: absent, or holding a document
NoFile == [exists |-> FALSE, doc |-> default_config]

FileOf(doc) == [exists |-> TRUE, doc |-> doc]

\* load_config: the document it returns, and the file it leaves behind
\* (defaults are written when the file does not exist)
load_config(file) == IF file.exists THEN file.doc ELSE default_config

\* load_config writing the defaults without looking for the file
file_after_load_rewrites(file) == FileOf(default_config)

file_after_load(file) == IF file.exists THEN file ELSE FileOf(default_config)

save_config(cfg) == FileOf(cfg)

CityIds(cities) == {cities[i].id : i \in 1..Len(cities)}

RemoveAt(seq, i) == SubSeq(seq, 1, i - 1) \o SubSeq(seq, i + 1, Len(seq))

\* tz = city.get("timezone") or settings.get("timezone", DEFAULT_TIMEZONE):
\* the timezone update_city and update_one_city pass to the forecast call
EffectiveTimezone(settings, city) ==
    IF city.timezone # "" THEN city.timezone ELSE settings.timezone

\* the entry both scripts append
CityEntry(cid, query, countryCode, pick, loc, tz) ==
    [id |-> cid, query |-> query, countryCode |-> countryCode, pick |-> pick,
     lat |-> loc.latitude, lon |-> loc.longitude, label |-> CityLabel(loc),
     timezone |-> tz]

(***************************************************************************)
(* State                                                                   *)
(***************************************************************************)
VARIABLES
    script,     \* which script works on clima_live: "014", "015" or "both"
    cfgFile,    \* clima_live/cities.json
    folder,     \* folder[id]: clima_live/cities/<id>/ exists
    latest,     \* latest[id]: <<>> or <<payload>>   (latest.json)
    snaps,      \* snaps[id]: the files of snapshots/, each [name, mtime, data]
    status,     \* status[id]: <<>> or <<[ok, message]>> (updated_at is left out)
    graphs,     \* graphs[id]: the chart images exist
    hist,       \* history: hist[id] lists the [retention, data] of the last
                \* MaxHist calls of save_latest_and_snapshot since the folder
                \* was last removed
    clock,      \* the wall clock, in seconds
    lock,       \* CONFIG_LOCK: "free" or the thread holding it
    hpc,        \* hpc[h]: where request thread h of the dashboard stands
    hloc,       \* hloc[h]: its request and local variables
    cliPc,      \* where the CLI process stands
    cliRun,     \* run_loop's local variables
    cliResult,  \* what the last CLI command reported
    stop,       \* STOP_EVENT is set
    spc,        \* where the updater thread of the dashboard stands
    sloc,       \* updater_loop's local variables; done and prev list the ids
                \* refreshed in this cycle and in the one before
    last,       \* history: last[id] is <<>> or <<[ok, message]>>, the outcome
                \* of the last completed update_one_city of the city since it
                \* was last appended to the registry
    torn,       \* <<>>, or <<cfg>> while the CLI's save_config has opened
                \* cities.json for writing and not yet written cfg
    statusio    \* one city's status.json and status.json.tmp as files, and
                \* the threads inside write_status for that city

vars == <<script, cfgFile, folder, latest, snaps, status, graphs, hist, clock, lock,
          hpc, hloc, cliPc, cliRun, cliResult, stop, spc, sloc, last, torn, statusio>>

repoVars == <<folder, latest, snaps, status, graphs, hist>>

dashVars == <<lock, hpc, hloc>>

cliVars == <<cliPc, cliRun, cliResult>>

schedVars == <<stop, spc, sloc, last, torn>>

\* request threads of the Flask server
Handlers == {"h1", "h2"}

NoReq == [op |-> "none"]

IdleLocal ==
    [req |-> NoReq, cfg |-> <<>>, pick |-> 0, cid |-> <<>>, loc |-> <<>>,
     outcome |-> "", wrote |-> FALSE]

\* done lists the ids update_city was called with in the current cycle;
\* interval is run_loop's local of that name, tz the timezone of the last
\* forecast call; history: saved_interval is the interval_seconds that
\* cities.json held when the last update_city of the cycle returned
NoRun ==
    [once |-> FALSE, settings |-> default_config.settings, cities |-> <<>>, idx |-> 0,
     done |-> <<>>, interval_override |-> <<>>, interval |-> 0, tz |-> "",
     saved_interval |-> 0]

NoResult == [cmd |-> "none", outcome |-> "", id |-> <<>>]

\* interval is updater_loop's local of that name (0 before it is first
\* assigned), tz the timezone of the last forecast call of the cycle;
\* history: saved_interval is the interval_seconds that cities.json held
\* when the last update_one_city of the cycle returned
NoCycle ==
    [settings |-> default_config.settings, cities |-> <<>>, idx |-> 0, left |-> 0,
     done |-> <<>>, prev |-> <<>>, interval |-> 0, tz |-> "", saved_interval |-> 0]

\* a file: whether the name exists, and its content (<<>>: no complete
\* JSON document, <<doc>>: the document)
NoName == [exists |-> FALSE, content |-> <<>>]

\* the threads that call write_status for the city: the request thread of
\* confirm_add_city and the updater thread
StatusWriters == {"request", "updater"}

\* pc[w]: where w stands in write_status; doc[w]: the payload it writes;
\* fd[w]: the file its open handle refers to ("tmp", "status" once that
\* file has been renamed, "orphan" once it has been replaced, "none");
\* except[w]: the call is the one of update_one_city's except handler
NoStatusIo ==
    [tmp |-> NoName, st |-> NoName,
     pc |-> [w \in StatusWriters |-> "idle"],
     doc |-> [w \in StatusWriters |-> [ok |-> FALSE, message |-> ""]],
     fd |-> [w \in StatusWriters |-> "none"],
     except |-> [w \in StatusWriters |-> FALSE]]

Init ==
    /\ script \in {"014", "015", "both"}
    /\ cfgFile = NoFile
    /\ folder = [c \in AllIds |-> FALSE]
    /\ latest = [c \in AllIds |-> <<>>]
    /\ snaps = [c \in AllIds |-> {}]
    /\ status = [c \in AllIds |-> <<>>]
    /\ graphs = [c \in AllIds |-> FALSE]
    /\ hist = [c \in AllIds |-> <<>>]
    /\ clock = 0
    /\ lock = "free"
    /\ hpc = [h \in Handlers |-> "idle"]
    /\ hloc = [h \in Handlers |-> IdleLocal]
    /\ cliPc = "idle"
    /\ cliRun = NoRun
    /\ cliResult = NoResult
    /\ stop = FALSE
    /\ spc = "off"
    /\ sloc = NoCycle
    /\ last = [c \in AllIds |-> <<>>]
    /\ torn = <<>>
    /\ statusio = NoStatusIo

(***************************************************************************)
(* Per-city documents                                                      *)
(***************************************************************************)
\* write_status: creates the city folder and replaces status.json
write_status(cid, ok, message) ==
    /\ folder' = [folder EXCEPT ![cid] = TRUE]
    /\ status' = [status EXCEPT ![cid] =
                    <<[ok |-> ok, message |-> message]>>]

\* the retention loop with the list sorted oldest first
PrunedSnaps_oldest_first(files, retention) ==
    LET rank(s) == Cardinality({t \in files : t.mtime < s.mtime})
        n == Cardinality(files)
        first == IF retention >= 0 THEN retention ELSE Max(n + retention, 0)
    IN  {s \in files : rank(s) >= first}

\* snaps[retention:] of the list sorted by mtime, newest first: the files
\* the retention loop removes
PrunedSnaps(files, retention) ==
    LET rank(s) == Cardinality({t \in files : t.mtime > s.mtime})
        n == Cardinality(files)
        first == IF retention >= 0 THEN retention ELSE Max(n + retention, 0)
    IN  {s \in files : rank(s) >= first}

\* the snapshot directory after save_latest_and_snapshot: the file named
\* now_ts() is created or replaced, then the old files are removed
snapshots_after_save(files, data, retention) ==
    LET written == {s \in files : s.name # clock}
                   \cup {[name |-> clock, mtime |-> clock, data |-> data]}
    IN  written \ PrunedSnaps(written, retention)

\* shutil.rmtree(city_folder(city_id), ignore_errors=True), when it is a directory
purge_city_folder(cid) ==
    /\ folder' = [folder EXCEPT ![cid] = FALSE]
    /\ latest' = [latest EXCEPT ![cid] = <<>>]
    /\ snaps' = [snaps EXCEPT ![cid] = {}]
    /\ status' = [status EXCEPT ![cid] = <<>>]
    /\ graphs' = [graphs EXCEPT ![cid] = FALSE]
    /\ hist' = [hist EXCEPT ![cid] = <<>>]

(***************************************************************************)
(* Dashboard: POST /confirm_add                                            *)
(***************************************************************************)
\* a request thread ends its request with a redirect carrying the message
Respond(h, outcome) ==
    /\ hpc' = [hpc EXCEPT ![h] = "done"]
    /\ hloc' = [hloc EXCEPT ![h] =
                  [@ EXCEPT !.cfg = <<>>, !.loc = <<>>, !.outcome = outcome]]

\* the response is sent; the thread is free for the next request
send_response(h) ==
    /\ hpc[h] = "done"
    /\ hpc' = [hpc EXCEPT ![h] = "idle"]
    /\ hloc' = [hloc EXCEPT ![h] = IdleLocal]
    /\ UNCHANGED <<cfgFile, repoVars, clock, lock, cliVars>>

\* pick = int(pick_str), 0 on ValueError
FormPick(text) == IF ParseInt(text).ok THEN ParseInt(text).val ELSE 0

\* the form is read; an empty query is answered at once, otherwise the
\* first "with CONFIG_LOCK" block is entered and the file loaded
confirm_add_city_begin(h, req) ==
    /\ hpc[h] = "idle"
    /\ req.op = "confirm_add"
    /\ IF req.query = ""
       THEN /\ hpc' = [hpc EXCEPT ![h] = "done"]
            /\ hloc' = [hloc EXCEPT ![h] =
                          [IdleLocal EXCEPT !.req = req, !.outcome = "missing_query"]]
            /\ UNCHANGED <<cfgFile, lock>>
       ELSE /\ lock = "free"
            /\ lock' = h
            /\ cfgFile' = file_after_load(cfgFile)
            /\ hpc' = [hpc EXCEPT ![h] = "ca_capacity"]
            /\ hloc' = [hloc EXCEPT ![h] =
                          [IdleLocal EXCEPT !.req = req, !.pick = FormPick(req.pick),
                                            !.cfg = <<load_config(cfgFile)>>]]
    /\ UNCHANGED <<repoVars, clock, cliVars>>

\* the capacity check of the first block; the lock is released either way
confirm_add_city_capacity(h) ==
    /\ hpc[h] = "ca_capacity"
    /\ lock' = "free"
    /\ IF Len(hloc[h].cfg[1].cities) >= MAX_CITIES
       THEN Respond(h, "capacity")
       ELSE /\ hpc' = [hpc EXCEPT ![h] = "ca_geocoding"]
            /\ hloc' = [hloc EXCEPT ![h] = [@ EXCEPT !.cfg = <<>>]]
    /\ UNCHANGED <<cfgFile, repoVars, clock, cliVars>>

\* geocoding outside the lock, the range check of pick, label and id
confirm_add_city_geocoding(h, geo) ==
    /\ hpc[h] = "ca_geocoding"
    /\ geo \in GeoOutcomes(hloc[h].req.query)
    /\ IF geo.err \/ geo.results = <<>>
       THEN Respond(h, "geocoding_failed")
       ELSE IF hloc[h].pick < 0 \/ hloc[h].pick >= Len(geo.results)
       THEN Respond(h, "pick_out_of_range")
       ELSE /\ hpc' = [hpc EXCEPT ![h] = "ca_lock"]
            /\ hloc' = [hloc EXCEPT ![h] =
                          [@ EXCEPT !.loc = <<geo.results[hloc[h].pick + 1]>>,
                                    !.cid = CityId(geo.results[hloc[h].pick + 1])]]
    /\ UNCHANGED <<cfgFile, repoVars, clock, lock, cliVars>>

\* the second block of confirm_add_city outside CONFIG_LOCK
confirm_add_city_lock_no_wait(h) ==
    /\ hpc[h] = "ca_lock"
    /\ cfgFile' = file_after_load(cfgFile)
    /\ hpc' = [hpc EXCEPT ![h] = "ca_append"]
    /\ hloc' = [hloc EXCEPT ![h] = [@ EXCEPT !.cfg = <<load_config(cfgFile)>>]]
    /\ UNCHANGED <<lock, repoVars, clock, cliVars>>

\* the second "with CONFIG_LOCK" block is entered and the file loaded again
confirm_add_city_lock(h) ==
    /\ hpc[h] = "ca_lock"
    /\ lock = "free"
    /\ lock' = h
    /\ cfgFile' = file_after_load(cfgFile)
    /\ hpc' = [hpc EXCEPT ![h] = "ca_append"]
    /\ hloc' = [hloc EXCEPT ![h] = [@ EXCEPT !.cfg = <<load_config(cfgFile)>>]]
    /\ UNCHANGED <<repoVars, clock, cliVars>>

\* the second block with the duplicate test on the label instead of the id
confirm_add_city_cities_by_label(cities, cid, req, pick, loc) ==
    IF \E i \in 1..Len(cities) : cities[i].label = cid
    THEN [dup |-> TRUE, cities |-> cities]
    ELSE [dup |-> FALSE,
          cities |-> Append(cities, CityEntry(cid, req.query, req.countryCode,
                                              pick, loc, "auto"))]

\* the cities of the second block after the duplicate check and the append
confirm_add_city_cities(cities, cid, req, pick, loc) ==
    IF \E i \in 1..Len(cities) : cities[i].id = cid
    THEN [dup |-> TRUE, cities |-> cities]
    ELSE [dup |-> FALSE,
          cities |-> Append(cities, CityEntry(cid, req.query, req.countryCode,
                                              pick, loc, "auto"))]

\* the second block with append and save_config placed before the duplicate
\* check
confirm_add_city_append_save_first(h) ==
    /\ hpc[h] = "ca_append"
    /\ lock' = "free"
    /\ LET cfg == hloc[h].cfg[1]
           r == confirm_add_city_cities(cfg.cities, hloc[h].cid, hloc[h].req,
                                        hloc[h].pick, hloc[h].loc[1])
           appended == Append(cfg.cities,
                              CityEntry(hloc[h].cid, hloc[h].req.query,
                                        hloc[h].req.countryCode, hloc[h].pick,
                                        hloc[h].loc[1], "auto"))
       IN  /\ cfgFile' = save_config([cfg EXCEPT !.cities = appended])
           /\ IF r.dup
              THEN Respond(h, "duplicate")
              ELSE /\ hpc' = [hpc EXCEPT ![h] = "ca_status"]
                   /\ hloc' = [hloc EXCEPT ![h] =
                                 [@ EXCEPT !.cfg = <<>>, !.loc = <<>>, !.wrote = TRUE]]
    /\ UNCHANGED <<repoVars, clock, cliVars>>

\* the rest of the second block: duplicate check, append, save_config
confirm_add_city_append(h) ==
    /\ hpc[h] = "ca_append"
    /\ lock' = "free"
    /\ LET cfg == hloc[h].cfg[1]
           r == confirm_add_city_cities(cfg.cities, hloc[h].cid, hloc[h].req,
                                        hloc[h].pick, hloc[h].loc[1])
       IN  IF r.dup
           THEN /\ Respond(h, "duplicate")
                /\ UNCHANGED cfgFile
           ELSE /\ cfgFile' = save_config([cfg EXCEPT !.cities = r.cities])
                /\ hpc' = [hpc EXCEPT ![h] = "ca_status"]
                /\ hloc' = [hloc EXCEPT ![h] =
                              [@ EXCEPT !.cfg = <<>>, !.loc = <<>>, !.wrote = TRUE]]
    /\ UNCHANGED <<repoVars, clock, cliVars>>

\* the city folders are created and the first status written
confirm_add_city_status(h) ==
    /\ hpc[h] = "ca_status"
    /\ write_status(hloc[h].cid, FALSE, "Anadida. Esperando primera actualizacion...")
    /\ Respond(h, "ok")
    /\ UNCHANGED <<cfgFile, latest, snaps, graphs, hist, clock, lock, cliVars>>

(***************************************************************************)
(* Dashboard: POST /remove/<city_id>                                       *)
(***************************************************************************)
remove_city_begin(h, req) ==
    /\ hpc[h] = "idle"
    /\ req.op = "remove"
    /\ lock = "free"
    /\ lock' = h
    /\ cfgFile' = file_after_load(cfgFile)
    /\ hpc' = [hpc EXCEPT ![h] = "rm_filter"]
    /\ hloc' = [hloc EXCEPT ![h] =
                  [IdleLocal EXCEPT !.req = req, !.cid = req.city_id,
                                    !.cfg = <<load_config(cfgFile)>>]]
    /\ UNCHANGED <<repoVars, clock, cliVars>>

\* new_cities = [c for c in cities if c.get("id") != city_id]
remove_city_new_cities(cities, city_id) ==
    SelectSeq(cities, LAMBDA c : c.id # city_id)

remove_city_filter(h) ==
    /\ hpc[h] = "rm_filter"
    /\ lock' = "free"
    /\ LET cfg == hloc[h].cfg[1]
           new_cities == remove_city_new_cities(cfg.cities, hloc[h].cid)
       IN  IF Len(new_cities) = Len(cfg.cities)
           THEN /\ Respond(h, "not_found")
                /\ UNCHANGED cfgFile
           ELSE /\ cfgFile' = save_config([cfg EXCEPT !.cities = new_cities])
                /\ hpc' = [hpc EXCEPT ![h] = "rm_purge"]
                /\ hloc' = [hloc EXCEPT ![h] = [@ EXCEPT !.cfg = <<>>, !.wrote = TRUE]]
    /\ UNCHANGED <<repoVars, clock, cliVars>>

remove_city_purge(h) ==
    /\ hpc[h] = "rm_purge"
    /\ purge_city_folder(hloc[h].cid)
    /\ Respond(h, "ok")
    /\ UNCHANGED <<cfgFile, clock, lock, cliVars>>

(***************************************************************************)
(* Dashboard: POST /settings                                               *)
(***************************************************************************)
update_settings_begin(h, req) ==
    /\ hpc[h] = "idle"
    /\ req.op = "settings"
    /\ lock = "free"
    /\ lock' = h
    /\ cfgFile' = file_after_load(cfgFile)
    /\ hpc' = [hpc EXCEPT ![h] = "st_save"]
    /\ hloc' = [hloc EXCEPT ![h] =
                  [IdleLocal EXCEPT !.req = req, !.cfg = <<load_config(cfgFile)>>]]
    /\ UNCHANGED <<repoVars, clock, cliVars>>

\* update_settings with both conversions inside one try block
update_settings_values_one_try(settings, interval, retention) ==
    IF ParseInt(interval).ok /\ ParseInt(retention).ok
    THEN [settings EXCEPT !.interval_seconds = Max(30, ParseInt(interval).val),
                          !.snapshot_retention = Max(1, ParseInt(retention).val)]
    ELSE IF ParseInt(interval).ok
    THEN [settings EXCEPT !.interval_seconds = Max(30, ParseInt(interval).val)]
    ELSE settings

\* the two try blocks: int(), the floor, and "pass" on an exception
update_settings_values(settings, interval, retention) ==
    LET s1 == IF ParseInt(interval).ok
              THEN [settings EXCEPT !.interval_seconds = Max(30, ParseInt(interval).val)]
              ELSE settings
    IN  IF ParseInt(retention).ok
        THEN [s1 EXCEPT !.snapshot_retention = Max(1, ParseInt(retention).val)]
        ELSE s1

\* update_settings saving a fresh document that carries only the settings
update_settings_save_fresh(h) ==
    /\ hpc[h] = "st_save"
    /\ lock' = "free"
    /\ LET cfg == hloc[h].cfg[1]
           settings == update_settings_values(cfg.settings,
                           hloc[h].req.interval_seconds, hloc[h].req.snapshot_retention)
       IN  cfgFile' = save_config([default_config EXCEPT !.settings = settings])
    /\ hpc' = [hpc EXCEPT ![h] = "done"]
    /\ hloc' = [hloc EXCEPT ![h] =
                  [@ EXCEPT !.cfg = <<>>, !.outcome = "ok", !.wrote = TRUE]]
    /\ UNCHANGED <<repoVars, clock, cliVars>>

update_settings_save(h) ==
    /\ hpc[h] = "st_save"
    /\ lock' = "free"
    /\ LET cfg == hloc[h].cfg[1]
           settings == update_settings_values(cfg.settings,
                           hloc[h].req.interval_seconds, hloc[h].req.snapshot_retention)
       IN  cfgFile' = save_config([cfg EXCEPT !.settings = settings])
    /\ hpc' = [hpc EXCEPT ![h] = "done"]
    /\ hloc' = [hloc EXCEPT ![h] =
                  [@ EXCEPT !.cfg = <<>>, !.outcome = "ok", !.wrote = TRUE]]
    /\ UNCHANGED <<repoVars, clock, cliVars>>

(***************************************************************************)
(* CLI (014): one command per process; main() loads the file first         *)
(***************************************************************************)
\* add_city with the capacity test written "len(cities) > MAX_CITIES"
add_city_late_capacity(cities, req, geo) ==
    IF Len(cities) > MAX_CITIES
    THEN [outcome |-> "capacity", cities |-> cities, id |-> <<>>]
    ELSE IF geo.err
    THEN [outcome |-> "provider_error", cities |-> cities, id |-> <<>>]
    ELSE IF geo.results = <<>>
    THEN [outcome |-> "not_found", cities |-> cities, id |-> <<>>]
    ELSE IF req.pick < 0 \/ req.pick >= Len(geo.results)
    THEN [outcome |-> "pick_out_of_range", cities |-> cities, id |-> <<>>]
    ELSE LET loc == geo.results[req.pick + 1]
             cid == CityId(loc)
         IN  IF \E i \in 1..Len(cities) : cities[i].id = cid
             THEN [outcome |-> "duplicate", cities |-> cities, id |-> cid]
             ELSE [outcome |-> "ok", id |-> cid,
                   cities |-> Append(cities,
                       CityEntry(cid, req.query, req.countryCode, req.pick, loc,
                                 req.timezone))]

\* add_city: the outcome (an exception, or "ok") and the cities it leaves
\* in cfg
add_city(cities, req, geo) ==
    IF Len(cities) >= MAX_CITIES
    THEN [outcome |-> "capacity", cities |-> cities, id |-> <<>>]
    ELSE IF geo.err
    THEN [outcome |-> "provider_error", cities |-> cities, id |-> <<>>]
    ELSE IF geo.results = <<>>
    THEN [outcome |-> "not_found", cities |-> cities, id |-> <<>>]
    ELSE IF req.pick < 0 \/ req.pick >= Len(geo.results)
    THEN [outcome |-> "pick_out_of_range", cities |-> cities, id |-> <<>>]
    ELSE LET loc == geo.results[req.pick + 1]
             cid == CityId(loc)
         IN  IF \E i \in 1..Len(cities) : cities[i].id = cid
             THEN [outcome |-> "duplicate", cities |-> cities, id |-> cid]
             ELSE [outcome |-> "ok", id |-> cid,
                   cities |-> Append(cities,
                       CityEntry(cid, req.query, req.countryCode, req.pick, loc,
                                 req.timezone))]

\* main() with --add: save_config only when add_city raised nothing
cli_add(req, geo) ==
    /\ cliPc = "idle"
    /\ geo \in GeoOutcomes(req.query)
    /\ LET cfg == load_config(cfgFile)
           r == add_city(cfg.cities, req, geo)
       IN  /\ cfgFile' = IF r.outcome = "ok"
                         THEN save_config([cfg EXCEPT !.cities = r.cities])
                         ELSE file_after_load(cfgFile)
           /\ cliResult' = [cmd |-> "add", outcome |-> r.outcome, id |-> r.id]
    /\ UNCHANGED <<repoVars, clock, dashVars, cliPc, cliRun>>

\* the first index whose city has the id
RECURSIVE IndexOfId(_, _, _)
IndexOfId(cities, target, i) ==
    IF i > Len(cities) THEN 0
    ELSE IF cities[i].id = target THEN i
    ELSE IndexOfId(cities, target, i + 1)

\* remove_city: a target made of digits is an index and nothing else
remove_city(cities, target) ==
    IF cities = <<>> THEN [ok |-> FALSE, cities |-> cities, id |-> <<>>]
    ELSE IF IsDigit(target)
    THEN LET idx == DecValue(target)
         IN  IF 0 <= idx /\ idx < Len(cities)
             THEN [ok |-> TRUE, cities |-> RemoveAt(cities, idx + 1),
                   id |-> cities[idx + 1].id]
             ELSE [ok |-> FALSE, cities |-> cities, id |-> <<>>]
    ELSE LET i == IndexOfId(cities, target, 1)
         IN  IF i > 0
             THEN [ok |-> TRUE, cities |-> RemoveAt(cities, i), id |-> target]
             ELSE [ok |-> FALSE, cities |-> cities, id |-> <<>>]

\* main() with --remove: save_config only when remove_city returned True;
\* nothing under clima_live/cities/ is touched
cli_remove(target) ==
    /\ cliPc = "idle"
    /\ target # <<>>
    /\ LET cfg == load_config(cfgFile)
           r == remove_city(cfg.cities, target)
       IN  /\ cfgFile' = IF r.ok
                         THEN save_config([cfg EXCEPT !.cities = r.cities])
                         ELSE file_after_load(cfgFile)
           /\ cliResult' = [cmd |-> "remove",
                            outcome |-> IF r.ok THEN "ok" ELSE "not_found",
                            id |-> r.id]
    /\ UNCHANGED <<repoVars, clock, dashVars, cliPc, cliRun>>

\* update_city: forecast, latest + snapshot + retention, charts, status;
\* any exception ends in write_status(ok=False, str(e))
update_city(settings, city, fo) ==
    LET cid == city.id
        retention == settings.snapshot_retention
        saved == ~fo.err
        charts == saved /\ fo.data.hourly_time
        message == IF fo.err THEN "provider error"
                   ELSE IF ~fo.data.hourly_time THEN "El JSON no trae hourly.time"
                   ELSE "OK"
    IN  /\ latest' = [latest EXCEPT ![cid] = IF saved THEN <<fo.data>> ELSE @]
        /\ snaps' = [snaps EXCEPT ![cid] =
                       IF saved THEN snapshots_after_save(@, fo.data, retention) ELSE @]
        /\ graphs' = [graphs EXCEPT ![cid] = IF charts THEN TRUE ELSE @]
        /\ hist' = [hist EXCEPT ![cid] =
                      IF saved
                      THEN LastN(Append(@, [retention |-> retention, data |-> fo.data]),
                                 MaxHist)
                      ELSE @]
        /\ write_status(cid, charts, message)

\* main() with --once: run_loop loads the file, returns when there is no
\* city, otherwise enters the loop and loads the file again
cli_run_once_begin ==
    /\ cliPc = "idle"
    /\ cfgFile' = file_after_load(cfgFile)
    /\ LET cfg == load_config(cfgFile)
       IN  IF cfg.cities = <<>>
           THEN /\ cliResult' = [cmd |-> "once", outcome |-> "no_cities", id |-> <<>>]
                /\ UNCHANGED <<cliPc, cliRun>>
           ELSE /\ cliPc' = "cycle"
                /\ cliRun' = [once |-> TRUE, settings |-> cfg.settings,
                              cities |-> cfg.cities, idx |-> 1, done |-> <<>>,
                              interval_override |-> <<>>,
                              interval |-> cfg.settings.interval_seconds, tz |-> "",
                              saved_interval |-> 0]
                /\ cliResult' = [cmd |-> "once", outcome |-> "running", id |-> <<>>]
    /\ UNCHANGED <<repoVars, clock, dashVars>>

\* for city in cities: update_city(data_dir, settings, city)
cli_run_city(fo) ==
    /\ cliPc = "cycle"
    /\ cliRun.idx <= Len(cliRun.cities)
    /\ update_city(cliRun.settings, cliRun.cities[cliRun.idx], fo)
    /\ cliRun' = [cliRun EXCEPT !.idx = @ + 1,
                                !.done = Append(@, cliRun.cities[cliRun.idx].id),
                                !.tz = EffectiveTimezone(cliRun.settings,
                                                         cliRun.cities[cliRun.idx]),
                                !.saved_interval =
                                    load_config(cfgFile).settings.interval_seconds]
    /\ UNCHANGED <<cfgFile, clock, dashVars, cliPc, cliResult>>

\* the loop leaving one city early
cli_run_once_end_early ==
    /\ cliPc = "cycle"
    /\ cliRun.idx >= Len(cliRun.cities)
    /\ cliRun.once
    /\ cliPc' = "idle"
    /\ cliRun' = NoRun
    /\ cliResult' = [cmd |-> "once", outcome |-> "ok", id |-> <<>>]
    /\ UNCHANGED <<cfgFile, repoVars, clock, dashVars>>

\* if once: break
cli_run_once_end ==
    /\ cliPc = "cycle"
    /\ cliRun.idx > Len(cliRun.cities)
    /\ cliRun.once
    /\ cliPc' = "idle"
    /\ cliRun' = NoRun
    /\ cliResult' = [cmd |-> "once", outcome |-> "ok", id |-> <<>>]
    /\ UNCHANGED <<cfgFile, repoVars, clock, dashVars>>

\* a second passes
Tick ==
    /\ clock < MaxClock
    /\ clock' = clock + 1
    /\ UNCHANGED <<cfgFile, repoVars, dashVars, cliVars>>

\* main() with --run [--interval N]: as --once, but the loop goes on;
\* interval_override is <<>> (None) or <<N>>, and interval is computed here,
\* before the loop
cli_run_loop_begin(interval_override) ==
    /\ cliPc = "idle"
    /\ cfgFile' = file_after_load(cfgFile)
    /\ LET cfg == load_config(cfgFile)
       IN  IF cfg.cities = <<>>
           THEN /\ cliResult' = [cmd |-> "run", outcome |-> "no_cities", id |-> <<>>]
                /\ UNCHANGED <<cliPc, cliRun>>
           ELSE /\ cliPc' = "cycle"
                /\ cliRun' = [once |-> FALSE, settings |-> cfg.settings,
                              cities |-> cfg.cities, idx |-> 1, done |-> <<>>,
                              interval_override |-> interval_override,
                              interval |-> IF interval_override # <<>>
                                           THEN interval_override[1]
                                           ELSE cfg.settings.interval_seconds,
                              tz |-> "", saved_interval |-> 0]
                /\ cliResult' = [cmd |-> "run", outcome |-> "running", id |-> <<>>]
    /\ UNCHANGED <<repoVars, clock, dashVars>>

\* time.sleep(interval) begins
cli_run_sleep ==
    /\ cliPc = "cycle"
    /\ cliRun.idx > Len(cliRun.cities)
    /\ ~cliRun.once
    /\ cliPc' = "sleeping"
    /\ UNCHANGED <<cfgFile, repoVars, clock, dashVars, cliRun, cliResult>>

\* time.sleep(interval) returns; the next cycle loads the file again
cli_run_wake ==
    /\ cliPc = "sleeping"
    /\ cfgFile' = file_after_load(cfgFile)
    /\ LET cfg == load_config(cfgFile)
       IN  cliRun' = [once |-> FALSE, settings |-> cfg.settings,
                      cities |-> cfg.cities, idx |-> 1, done |-> <<>>,
                      interval_override |-> cliRun.interval_override,
                      interval |-> cliRun.interval, tz |-> "", saved_interval |-> 0]
    /\ cliPc' = "cycle"
    /\ UNCHANGED <<repoVars, clock, dashVars, cliResult>>

\* Ctrl+C between two calls of update_city or during the sleep:
\* except KeyboardInterrupt, run_loop returns
cli_interrupt ==
    /\ cliPc \in {"cycle", "sleeping"}
    /\ cliPc' = "idle"
    /\ cliRun' = NoRun
    /\ cliResult' = [cmd |-> "run", outcome |-> "interrupted", id |-> <<>>]
    /\ UNCHANGED <<cfgFile, repoVars, clock, dashVars>>

\* Ctrl+C inside update_city, after save_latest_and_snapshot has returned:
\* KeyboardInterrupt is not an Exception, so the handler of update_city is
\* passed over and neither the charts nor status.json are written
cli_interrupt_city(fo) ==
    /\ cliPc = "cycle"
    /\ cliRun.idx <= Len(cliRun.cities)
    /\ ~fo.err
    /\ LET cid == cliRun.cities[cliRun.idx].id
           retention == cliRun.settings.snapshot_retention
       IN  /\ folder' = [folder EXCEPT ![cid] = TRUE]
           /\ latest' = [latest EXCEPT ![cid] = <<fo.data>>]
           /\ snaps' = [snaps EXCEPT ![cid] = snapshots_after_save(@, fo.data, retention)]
           /\ hist' = [hist EXCEPT ![cid] =
                         LastN(Append(@, [retention |-> retention, data |-> fo.data]),
                               MaxHist)]
    /\ cliPc' = "idle"
    /\ cliRun' = NoRun
    /\ cliResult' = [cmd |-> "run", outcome |-> "interrupted", id |-> <<>>]
    /\ UNCHANGED <<cfgFile, status, graphs, clock, dashVars>>

(***************************************************************************)
(* CLI (014) as a concurrent reader of cities.json sees it: save_config    *)
(* opens the file with mode "w", which empties it, and json.dump writes    *)
(* the document afterwards                                                 *)
(***************************************************************************)
cli_add_open(req, geo) ==
    /\ cliPc = "idle"
    /\ torn = <<>>
    /\ geo \in GeoOutcomes(req.query)
    /\ cfgFile' = file_after_load(cfgFile)
    /\ LET cfg == load_config(cfgFile)
           r == add_city(cfg.cities, req, geo)
       IN  IF r.outcome = "ok"
           THEN /\ torn' = <<[cfg EXCEPT !.cities = r.cities]>>
                /\ cliPc' = "saving"
                /\ cliResult' = [cmd |-> "add", outcome |-> "saving", id |-> r.id]
           ELSE /\ cliResult' = [cmd |-> "add", outcome |-> r.outcome, id |-> r.id]
                /\ UNCHANGED <<torn, cliPc>>
    /\ UNCHANGED <<repoVars, clock, dashVars, cliRun, stop, spc, sloc, last>>

cli_save_close ==
    /\ cliPc = "saving"
    /\ torn # <<>>
    /\ cfgFile' = save_config(torn[1])
    /\ torn' = <<>>
    /\ cliPc' = "idle"
    /\ cliResult' = [cliResult EXCEPT !.outcome = "ok"]
    /\ UNCHANGED <<repoVars, clock, dashVars, cliRun, stop, spc, sloc, last>>

(***************************************************************************)
(* Dashboard: the updater thread                                           *)
(***************************************************************************)
\* the ticks of one sleep the model follows
MaxTicks == 2

Min(a, b) == IF a <= b THEN a ELSE b

\* what can go wrong with the disk during one update_one_city: nothing, or
\* every write of status.json raises OSError
Faults == {"none", "status_write"}

\* what update_one_city hands to write_status
UpdateOutcome(fo) ==
    IF fo.err THEN [ok |-> FALSE, message |-> "provider error"]
    ELSE IF ~fo.data.hourly_time THEN [ok |-> FALSE, message |-> "Sin hourly.time"]
    ELSE [ok |-> TRUE, message |-> "OK"]

\* update_one_city with generate_graphs placed before
\* save_latest_and_snapshot
update_one_city_charts_first(settings, city, fo, fault) ==
    LET cid == city.id
        retention == settings.snapshot_retention
        charts == ~fo.err /\ fo.data.hourly_time
    IN  /\ latest' = [latest EXCEPT ![cid] = IF charts THEN <<fo.data>> ELSE @]
        /\ snaps' = [snaps EXCEPT ![cid] =
                       IF charts THEN snapshots_after_save(@, fo.data, retention) ELSE @]
        /\ graphs' = [graphs EXCEPT ![cid] = IF charts THEN TRUE ELSE @]
        /\ hist' = [hist EXCEPT ![cid] =
                      IF charts
                      THEN LastN(Append(@, [retention |-> retention, data |-> fo.data]),
                                 MaxHist)
                      ELSE @]
        /\ IF fault = "none"
           THEN write_status(cid, UpdateOutcome(fo).ok, UpdateOutcome(fo).message)
           ELSE /\ folder' = [folder EXCEPT ![cid] = TRUE]
                /\ UNCHANGED status

\* update_one_city: forecast, latest + snapshot + retention, charts, status;
\* an exception of the try block ends in write_status(ok=False, str(e)),
\* an exception of that call leaves update_one_city
update_one_city(settings, city, fo, fault) ==
    LET cid == city.id
        retention == settings.snapshot_retention
        saved == ~fo.err
        charts == saved /\ fo.data.hourly_time
    IN  /\ latest' = [latest EXCEPT ![cid] = IF saved THEN <<fo.data>> ELSE @]
        /\ snaps' = [snaps EXCEPT ![cid] =
                       IF saved THEN snapshots_after_save(@, fo.data, retention) ELSE @]
        /\ graphs' = [graphs EXCEPT ![cid] = IF charts THEN TRUE ELSE @]
        /\ hist' = [hist EXCEPT ![cid] =
                      IF saved
                      THEN LastN(Append(@, [retention |-> retention, data |-> fo.data]),
                                 MaxHist)
                      ELSE @]
        /\ IF fault = "none"
           THEN write_status(cid, UpdateOutcome(fo).ok, UpdateOutcome(fo).message)
           ELSE /\ folder' = [folder EXCEPT ![cid] = TRUE]
                /\ UNCHANGED status

\* main(): the updater thread is started
start_updater ==
    /\ spc = "off"
    /\ spc' = "while"
    /\ UNCHANGED <<cfgFile, repoVars, clock, dashVars, cliVars, stop, sloc, last, torn>>

\* __main__: except KeyboardInterrupt: STOP_EVENT.set()
set_stop ==
    /\ spc # "off"
    /\ ~stop
    /\ stop' = TRUE
    /\ UNCHANGED <<cfgFile, repoVars, clock, dashVars, cliVars, spc, sloc, last, torn>>

\* while not STOP_EVENT.is_set():
updater_loop_while ==
    /\ spc = "while"
    /\ spc' = IF stop THEN "exited" ELSE "load"
    /\ UNCHANGED <<cfgFile, repoVars, clock, dashVars, cliVars, stop, sloc, last, torn>>

\* updater_loop reading cities.json before the loop only
updater_loop_load_once ==
    /\ spc = "load"
    /\ lock = "free"
    /\ IF torn # <<>>
       THEN /\ spc' = "dead"
            /\ UNCHANGED <<cfgFile, sloc>>
       ELSE /\ cfgFile' = file_after_load(cfgFile)
            /\ sloc' = [settings |-> load_config(cfgFile).settings,
                        cities |-> IF sloc.cities # <<>> THEN sloc.cities
                                   ELSE load_config(cfgFile).cities,
                        idx |-> 0, left |-> 0, done |-> <<>>, prev |-> sloc.done,
                        interval |-> sloc.interval, tz |-> "", saved_interval |-> 0]
            /\ spc' = "next"
    /\ UNCHANGED <<repoVars, clock, dashVars, cliVars, stop, last, torn>>

\* with CONFIG_LOCK: cfg = load_config(); json.load raises on a file that
\* is being written in place, and nothing catches it
updater_loop_load ==
    /\ spc = "load"
    /\ lock = "free"
    /\ IF torn # <<>>
       THEN /\ spc' = "dead"
            /\ UNCHANGED <<cfgFile, sloc>>
       ELSE /\ cfgFile' = file_after_load(cfgFile)
            /\ sloc' = [settings |-> load_config(cfgFile).settings,
                        cities |-> load_config(cfgFile).cities,
                        idx |-> 0, left |-> 0, done |-> <<>>, prev |-> sloc.done,
                        interval |-> sloc.interval, tz |-> "", saved_interval |-> 0]
            /\ spc' = "next"
    /\ UNCHANGED <<repoVars, clock, dashVars, cliVars, stop, last, torn>>

\* updater_loop writing its cfg back before it sleeps
updater_loop_next_saves ==
    /\ spc = "next"
    /\ IF sloc.idx < Len(sloc.cities) /\ ~stop
       THEN /\ spc' = "update"
            /\ UNCHANGED <<sloc, cfgFile>>
       ELSE /\ spc' = "sleep"
            /\ cfgFile' = save_config([settings |-> sloc.settings, cities |-> sloc.cities])
            /\ sloc' = [sloc EXCEPT
                          !.interval = sloc.settings.interval_seconds,
                          !.left = Min(sloc.settings.interval_seconds, MaxTicks)]
    /\ UNCHANGED <<repoVars, clock, dashVars, cliVars, stop, last, torn>>

\* for c in cities: if STOP_EVENT.is_set(): break; after the loop the
\* interval is read and the sleep loop begins
updater_loop_next ==
    /\ spc = "next"
    /\ IF sloc.idx < Len(sloc.cities) /\ ~stop
       THEN /\ spc' = "update"
            /\ UNCHANGED sloc
       ELSE /\ spc' = "sleep"
            /\ sloc' = [sloc EXCEPT
                          !.interval = sloc.settings.interval_seconds,
                          !.left = Min(sloc.settings.interval_seconds, MaxTicks)]
    /\ UNCHANGED <<cfgFile, repoVars, clock, dashVars, cliVars, stop, last, torn>>

\* the try block around the whole for loop: a failing city ends the cycle
updater_loop_update_abort(fo, fault) ==
    /\ spc = "update"
    /\ LET city == sloc.cities[sloc.idx + 1]
       IN  /\ update_one_city(sloc.settings, city, fo, fault)
           /\ IF fault = "none"
              THEN /\ spc' = "next"
                   /\ sloc' = [sloc EXCEPT
                                 !.idx = IF UpdateOutcome(fo).ok THEN @ + 1
                                         ELSE Len(sloc.cities),
                                 !.done = Append(@, city.id),
                                 !.tz = EffectiveTimezone(sloc.settings, city),
                                 !.saved_interval =
                                     load_config(cfgFile).settings.interval_seconds]
                   /\ last' = [last EXCEPT ![city.id] = <<UpdateOutcome(fo)>>]
              ELSE /\ spc' = "dead"
                   /\ UNCHANGED <<sloc, last>>
    /\ UNCHANGED <<cfgFile, clock, dashVars, cliVars, stop, torn>>

\* update_one_city(settings, c)
updater_loop_update(fo, fault) ==
    /\ spc = "update"
    /\ LET city == sloc.cities[sloc.idx + 1]
       IN  /\ update_one_city(sloc.settings, city, fo, fault)
           /\ IF fault = "none"
              THEN /\ spc' = "next"
                   /\ sloc' = [sloc EXCEPT !.idx = @ + 1, !.done = Append(@, city.id),
                                            !.tz = EffectiveTimezone(sloc.settings, city),
                                            !.saved_interval =
                                                load_config(cfgFile).settings.interval_seconds]
                   /\ last' = [last EXCEPT ![city.id] = <<UpdateOutcome(fo)>>]
              ELSE /\ spc' = "dead"
                   /\ UNCHANGED <<sloc, last>>
    /\ UNCHANGED <<cfgFile, clock, dashVars, cliVars, stop, torn>>

\* the sleep loop without the test of STOP_EVENT
updater_loop_tick_full_sleep ==
    /\ spc = "sleep"
    /\ IF sloc.left = 0
       THEN /\ spc' = "while"
            /\ UNCHANGED sloc
       ELSE /\ sloc' = [sloc EXCEPT !.left = @ - 1]
            /\ UNCHANGED spc
    /\ UNCHANGED <<cfgFile, repoVars, clock, dashVars, cliVars, stop, last, torn>>

\* for _ in range(interval): if STOP_EVENT.is_set(): break; time.sleep(1)
updater_loop_tick ==
    /\ spc = "sleep"
    /\ IF sloc.left = 0 \/ stop
       THEN /\ spc' = "while"
            /\ UNCHANGED sloc
       ELSE /\ sloc' = [sloc EXCEPT !.left = @ - 1]
            /\ UNCHANGED spc
    /\ UNCHANGED <<cfgFile, repoVars, clock, dashVars, cliVars, stop, last, torn>>

(***************************************************************************)
(* Inputs                                                                  *)
(***************************************************************************)
AddForm(query, pick) ==
    [op |-> "confirm_add", query |-> query, countryCode |-> "", pick |-> pick]

RemoveForm(city_id) == [op |-> "remove", city_id |-> city_id]

SettingsForm(interval, retention) ==
    [op |-> "settings", interval_seconds |-> interval, snapshot_retention |-> retention]

AddArgs(query, pick) ==
    [query |-> query, countryCode |-> "", pick |-> pick, timezone |-> DEFAULT_TIMEZONE]

\* POST /confirm_add: five places with five ids, a sixth whose id equals
\* the first one's, a query without results, picks out of range, no query
DashAddForms ==
    {AddForm("ma", <<"0">>), AddForm("ma", <<"1">>), AddForm("li", <<"0">>),
     AddForm("ro", <<"0">>), AddForm("7", <<"0">>),
     AddForm("zz", <<"0">>), AddForm("li", <<"1">>), AddForm("", <<"0">>)}

DashRemoveForms ==
    {RemoveForm(CityId(LocMadrid)), RemoveForm(<<"0">>)}

\* --add CITY --pick N
CliAddArgs ==
    {AddArgs("ma", 0), AddArgs("ma", 1), AddArgs("li", 0), AddArgs("ro", 0),
     AddArgs("7", 0), AddArgs("ro", 1), AddArgs("zz", 0), AddArgs("li", 1),
     AddArgs("li", -1)}

\* --remove ID_OR_INDEX: indexes, ids, a number that is an id, an unknown name
CliRemoveTargets ==
    {<<"0">>, <<"2">>, <<"7">>, CityId(LocMadrid), CityId(LocLima), <<"x">>}

(***************************************************************************)
(* SpecCli: the CLI script alone, one command after the other              *)
(***************************************************************************)
Registry == load_config(cfgFile)

NextCli ==
    \/ \E req \in CliAddArgs : \E geo \in AllGeoOutcomes : cli_add(req, geo)
    \/ \E target \in CliRemoveTargets : cli_remove(target)

SpecCli == Init /\ script = "014" /\ [][NextCli /\ UNCHANGED <<script, schedVars, statusio>>]_vars

(***************************************************************************)
(* SpecDash: the dashboard's request threads, interleaved                  *)
(***************************************************************************)
DashStep(h) ==
    \/ \E req \in DashAddForms : confirm_add_city_begin(h, req)
    \/ confirm_add_city_capacity(h)
    \/ \E geo \in AllGeoOutcomes : confirm_add_city_geocoding(h, geo)
    \/ confirm_add_city_lock(h)
    \/ confirm_add_city_append(h)
    \/ confirm_add_city_status(h)
    \/ \E req \in DashRemoveForms : remove_city_begin(h, req)
    \/ remove_city_filter(h)
    \/ remove_city_purge(h)
    \/ send_response(h)

NextDash == \E h \in Handlers : DashStep(h)

SpecDash == Init /\ script = "015" /\ [][NextDash /\ UNCHANGED <<script, schedVars, statusio>>]_vars

(***************************************************************************)
(* SpecScripts: either script, run on an empty clima_live                  *)
(***************************************************************************)
NextScripts ==
    \/ script = "014" /\ NextCli
    \/ script = "015" /\ NextDash

SpecScripts == Init /\ script # "both" /\ [][NextScripts /\ UNCHANGED <<script, schedVars, statusio>>]_vars

(***************************************************************************)
(* SpecSequential: either script, one command or request after the other   *)
(***************************************************************************)
NextSequential ==
    \/ script = "014" /\ NextCli
    \/ script = "015" /\ DashStep("h1")

SpecSequential ==
    Init /\ script # "both" /\ [][NextSequential /\ UNCHANGED <<script, schedVars, statusio>>]_vars

(***************************************************************************)
(* SpecSettings: the dashboard used through one request at a time          *)
(***************************************************************************)
\* the texts typed into the settings form
SettingsTexts ==
    {<<>>, <<"5">>, <<"6","0">>, <<"x">>, <<"-","3">>, <<"2">>, <<"2",".","5">>}

SettingsForms == {SettingsForm(i, r) : i \in SettingsTexts, r \in SettingsTexts}

OneAddForms == {AddForm("ma", <<"0">>), AddForm("li", <<"0">>)}

OneRemoveForms == {RemoveForm(CityId(LocMadrid))}

NextSettings ==
    \/ \E req \in SettingsForms : update_settings_begin("h1", req)
    \/ update_settings_save("h1")
    \/ \E req \in OneAddForms : confirm_add_city_begin("h1", req)
    \/ confirm_add_city_capacity("h1")
    \/ \E geo \in AllGeoOutcomes : confirm_add_city_geocoding("h1", geo)
    \/ confirm_add_city_lock("h1")
    \/ confirm_add_city_append("h1")
    \/ confirm_add_city_status("h1")
    \/ \E req \in OneRemoveForms : remove_city_begin("h1", req)
    \/ remove_city_filter("h1")
    \/ remove_city_purge("h1")
    \/ send_response("h1")

SpecSettings == Init /\ script = "015" /\ [][NextSettings /\ UNCHANGED <<script, schedVars, statusio>>]_vars

(***************************************************************************)
(* SpecRepo: both scripts on the same clima_live, one operation at a time: *)
(* the registry and the retention are edited, the CLI refreshes (--once),  *)
(* the clock advances                                                      *)
(***************************************************************************)
Quiescent == cliPc = "idle" /\ \A h \in Handlers : hpc[h] = "idle"

RepoAddArgs == {AddArgs("li", 0)}

RepoRemoveTargets == {<<"0">>}

RepoRemoveForms == {RemoveForm(CityId(LocLima))}

\* the forecast call fails, or returns one of two well-formed documents
RepoFetchOutcomes == {fo \in FetchOutcomes : fo.err \/ fo.data.hourly_time}

RepoSettingsForms == {SettingsForm(<<>>, <<"1">>), SettingsForm(<<>>, <<"2">>)}

NextRepo ==
    \/ Quiescent /\ \E req \in RepoAddArgs : \E geo \in AllGeoOutcomes : cli_add(req, geo)
    \/ Quiescent /\ \E target \in RepoRemoveTargets : cli_remove(target)
    \/ Quiescent /\ cli_run_once_begin
    \/ \E fo \in RepoFetchOutcomes : cli_run_city(fo)
    \/ cli_run_once_end
    \/ Quiescent /\ \E req \in RepoRemoveForms : remove_city_begin("h1", req)
    \/ remove_city_filter("h1")
    \/ remove_city_purge("h1")
    \/ Quiescent /\ \E req \in RepoSettingsForms : update_settings_begin("h1", req)
    \/ update_settings_save("h1")
    \/ send_response("h1")
    \/ Tick

SpecRepo == Init /\ script = "both" /\ [][NextRepo /\ UNCHANGED <<script, schedVars, statusio>>]_vars

(***************************************************************************)
(* SpecLoops: the refresh loops.  Script 014: commands one after the       *)
(* other, among them --once and --run (with Ctrl+C).  Script 015: the      *)
(* updater thread beside one request thread, and the stop signal.          *)
(***************************************************************************)
LoopAddArgs == {AddArgs("li", 0), AddArgs("ma", 0)}

LoopRemoveTargets == {<<"0">>}

LoopAddForms == {AddForm("li", <<"0">>), AddForm("ma", <<"0">>)}

LoopRemoveForms == {RemoveForm(CityId(LocLima))}

\* the forecast call fails, or returns a well-formed document
LoopFetchOutcomes == {fo \in FetchOutcomes : fo.err \/ fo.data.n = 1}

\* ... or a document without hourly.time
RunFetchOutcomes == {fo \in FetchOutcomes : fo.err \/ fo.data.n \in {1, 3}}

NextRun ==
    \/ \E req \in LoopAddArgs : \E geo \in AllGeoOutcomes : cli_add(req, geo)
    \/ \E target \in LoopRemoveTargets : cli_remove(target)
    \/ cli_run_once_begin
    \/ cli_run_loop_begin(<<>>)
    \/ \E fo \in RunFetchOutcomes : cli_run_city(fo)
    \/ cli_run_once_end
    \/ cli_run_sleep
    \/ cli_run_wake
    \/ cli_interrupt
    \/ \E fo \in RunFetchOutcomes : cli_interrupt_city(fo)

\* the request thread; history: an appended city has no completed update yet
LoopRequestStep(h) ==
    \/ /\ \/ \E req \in LoopAddForms : confirm_add_city_begin(h, req)
          \/ confirm_add_city_capacity(h)
          \/ \E geo \in AllGeoOutcomes : confirm_add_city_geocoding(h, geo)
          \/ confirm_add_city_lock(h)
          \/ confirm_add_city_status(h)
          \/ \E req \in LoopRemoveForms : remove_city_begin(h, req)
          \/ remove_city_filter(h)
          \/ remove_city_purge(h)
          \/ send_response(h)
       /\ UNCHANGED schedVars
    \/ /\ confirm_add_city_append(h)
       /\ last' = IF hpc'[h] = "ca_status"
                  THEN [last EXCEPT ![hloc[h].cid] = <<>>]
                  ELSE last
       /\ UNCHANGED <<stop, spc, sloc, torn>>

NextUpdater ==
    \/ start_updater
    \/ set_stop
    \/ updater_loop_while
    \/ updater_loop_load
    \/ updater_loop_next
    \/ \E fo \in LoopFetchOutcomes : updater_loop_update(fo, "none")
    \/ updater_loop_tick
    \/ LoopRequestStep("h1")

NextLoops ==
    \/ script = "014" /\ NextRun /\ UNCHANGED schedVars
    \/ script = "015" /\ NextUpdater

SpecLoops == Init /\ script # "both" /\ [][NextLoops /\ UNCHANGED <<script, statusio>>]_vars

(***************************************************************************)
(* SpecShared: the dashboard's updater thread and the CLI's --add on the   *)
(* same clima_live                                                         *)
(***************************************************************************)
SharedAddArgs == {AddArgs("li", 0), AddArgs("ma", 0)}

NextShared ==
    \/ start_updater
    \/ updater_loop_while
    \/ updater_loop_load
    \/ updater_loop_next
    \/ \E fo \in LoopFetchOutcomes : updater_loop_update(fo, "none")
    \/ updater_loop_tick
    \/ \E req \in SharedAddArgs : \E geo \in AllGeoOutcomes : cli_add_open(req, geo)
    \/ cli_save_close

SpecShared == Init /\ script = "both" /\ [][NextShared /\ UNCHANGED <<script, statusio>>]_vars

(***************************************************************************)
(* SpecFaults: the updater thread beside one request thread, with a disk   *)
(* that may refuse to write status.json                                    *)
(***************************************************************************)
NextFaults ==
    \/ start_updater
    \/ updater_loop_while
    \/ updater_loop_load
    \/ updater_loop_next
    \/ \E fo \in LoopFetchOutcomes : \E fault \in Faults : updater_loop_update(fo, fault)
    \/ updater_loop_tick
    \/ LoopRequestStep("h1")

SpecFaults == Init /\ script = "015" /\ [][NextFaults /\ UNCHANGED <<script, statusio>>]_vars

(***************************************************************************)
(* SpecHandlers: two request threads with every kind of request that       *)
(* writes cities.json                                                      *)
(***************************************************************************)
HandlersAddForms == {AddForm("li", <<"0">>), AddForm("ma", <<"0">>)}

HandlersRemoveForms == {RemoveForm(CityId(LocLima))}

HandlersSettingsForms == {SettingsForm(<<"6","0">>, <<>>), SettingsForm(<<>>, <<"2">>)}

NextHandlers ==
    \E h \in Handlers :
        \/ \E req \in HandlersAddForms : confirm_add_city_begin(h, req)
        \/ confirm_add_city_capacity(h)
        \/ \E geo \in AllGeoOutcomes : confirm_add_city_geocoding(h, geo)
        \/ confirm_add_city_lock(h)
        \/ confirm_add_city_append(h)
        \/ confirm_add_city_status(h)
        \/ \E req \in HandlersRemoveForms : remove_city_begin(h, req)
        \/ remove_city_filter(h)
        \/ remove_city_purge(h)
        \/ \E req \in HandlersSettingsForms : update_settings_begin(h, req)
        \/ update_settings_save(h)
        \/ send_response(h)

SpecHandlers ==
    Init /\ script = "015" /\ [][NextHandlers /\ UNCHANGED <<script, schedVars, statusio>>]_vars

(***************************************************************************)
(* SpecIds: both scripts on the same clima_live, one command or request    *)
(* after the other; places are reached through several queries, picks and  *)
(* country filters                                                         *)
(***************************************************************************)
IdAddArgs ==
    {AddArgs("ma", 1), AddArgs("va", 0), AddArgs("aa", 0), AddArgs("ro", 1),
     [AddArgs("va", 0) EXCEPT !.countryCode = "ES"]}

IdRemoveTargets == {<<"0">>}

IdAddForms == {AddForm("ma", <<"1">>), AddForm("va", <<"0">>), AddForm("aa", <<"0">>)}

IdRemoveForms == {RemoveForm(CityId(LocValencia))}

NextIds ==
    \/ Quiescent /\ \E req \in IdAddArgs : \E geo \in AllGeoOutcomes : cli_add(req, geo)
    \/ Quiescent /\ \E target \in IdRemoveTargets : cli_remove(target)
    \/ Quiescent /\ \E req \in IdAddForms : confirm_add_city_begin("h1", req)
    \/ confirm_add_city_capacity("h1")
    \/ \E geo \in AllGeoOutcomes : confirm_add_city_geocoding("h1", geo)
    \/ confirm_add_city_lock("h1")
    \/ confirm_add_city_append("h1")
    \/ confirm_add_city_status("h1")
    \/ Quiescent /\ \E req \in IdRemoveForms : remove_city_begin("h1", req)
    \/ remove_city_filter("h1")
    \/ remove_city_purge("h1")
    \/ send_response("h1")

SpecIds == Init /\ script = "both" /\ [][NextIds /\ UNCHANGED <<script, schedVars, statusio>>]_vars

(***************************************************************************)
(* SpecLive: the settings form used while a refresh loop runs.  Script     *)
(* 015: the updater thread, a request thread adding cities and one         *)
(* posting settings.  Both scripts: the CLI's --run, with and      *)
(* without --interval, beside the request thread posting settings.         *)
(***************************************************************************)
LiveSettingsForms ==
    {SettingsForm(<<"6","0">>, <<>>), SettingsForm(<<"5">>, <<"-","3">>)}

LiveAddArgs == {AddArgs("li", 0)}

\* --interval: absent, or 5
LiveOverrides == {<<>>, <<5>>}

\* the forecast call returns a well-formed document
LiveFetchOutcomes == {fo \in FetchOutcomes : ~fo.err /\ fo.data.n = 1}

LiveAddForms == {AddForm("li", <<"0">>)}

\* the request thread adding cities; history as in LoopRequestStep
LiveAddStep(h) ==
    \/ /\ \/ \E req \in LiveAddForms : confirm_add_city_begin(h, req)
          \/ confirm_add_city_capacity(h)
          \/ \E geo \in AllGeoOutcomes : confirm_add_city_geocoding(h, geo)
          \/ confirm_add_city_lock(h)
          \/ confirm_add_city_status(h)
          \/ send_response(h)
       /\ UNCHANGED schedVars
    \/ /\ confirm_add_city_append(h)
       /\ last' = IF hpc'[h] = "ca_status"
                  THEN [last EXCEPT ![hloc[h].cid] = <<>>]
                  ELSE last
       /\ UNCHANGED <<stop, spc, sloc, torn>>

LiveSettingsStep(h) ==
    /\ \/ \E req \in LiveSettingsForms : update_settings_begin(h, req)
       \/ update_settings_save(h)
       \/ send_response(h)
    /\ UNCHANGED schedVars

NextLiveUpdater ==
    \/ start_updater
    \/ updater_loop_while
    \/ updater_loop_load
    \/ updater_loop_next
    \/ \E fo \in LiveFetchOutcomes : updater_loop_update(fo, "none")
    \/ updater_loop_tick
    \/ LiveAddStep("h1")
    \/ LiveSettingsStep("h2")

NextLiveRun ==
    \/ /\ \/ \E req \in LiveAddArgs : \E geo \in AllGeoOutcomes : cli_add(req, geo)
          \/ \E override \in LiveOverrides : cli_run_loop_begin(override)
          \/ \E fo \in LiveFetchOutcomes : cli_run_city(fo)
          \/ cli_run_sleep
          \/ cli_run_wake
          \/ cli_interrupt
       /\ UNCHANGED schedVars
    \/ LiveSettingsStep("h2")

NextLive ==
    \/ script = "015" /\ NextLiveUpdater
    \/ script = "both" /\ NextLiveRun

SpecLive == Init /\ script # "014" /\ [][NextLive /\ UNCHANGED <<script, statusio>>]_vars

(***************************************************************************)
(* SpecEdited: a refresh loop working on a cities.json whose "settings"    *)
(* object the operator edits by hand (no command and no form of either     *)
(* script writes timezone or forecast_hours, and run_loop reloads the      *)
(* file every cycle "para que puedas editar cities.json en caliente").     *)
(* Script 014: --add with and without --timezone, --once.  Script 015:     *)
(* the updater thread beside a request thread adding cities.               *)
(***************************************************************************)
\* the "settings" objects the operator writes
EditedSettings ==
    {[default_config.settings EXCEPT !.timezone = "Europe/Madrid"],
     [default_config.settings EXCEPT !.snapshot_retention = 0]}

\* cities.json is saved from a text editor with another "settings" object
edit_cities_json(settings) ==
    /\ cfgFile.exists
    /\ cfgFile.doc.settings # settings
    /\ cfgFile' = FileOf([cfgFile.doc EXCEPT !.settings = settings])
    /\ UNCHANGED <<repoVars, clock, dashVars, cliVars, schedVars>>

EditedAddArgs ==
    {AddArgs("li", 0), [AddArgs("ma", 0) EXCEPT !.timezone = "Europe/Madrid"]}

\* the forecast call fails, or returns a well-formed document
EditedFetchOutcomes == {fo \in FetchOutcomes : fo.err \/ fo.data.n = 1}

NextEditedRun ==
    \/ \E req \in EditedAddArgs : \E geo \in AllGeoOutcomes : cli_add(req, geo)
    \/ cli_run_once_begin
    \/ \E fo \in EditedFetchOutcomes : cli_run_city(fo)
    \/ cli_run_once_end

NextEditedUpdater ==
    \/ start_updater
    \/ updater_loop_while
    \/ updater_loop_load
    \/ updater_loop_next
    \/ \E fo \in EditedFetchOutcomes : updater_loop_update(fo, "none")
    \/ updater_loop_tick
    \/ LiveAddStep("h1")

NextEdited ==
    \/ script = "014" /\ NextEditedRun /\ UNCHANGED schedVars
    \/ script = "015" /\ NextEditedUpdater
    \/ \E settings \in EditedSettings : edit_cities_json(settings)

SpecEdited == Init /\ script # "both" /\ [][NextEdited /\ UNCHANGED <<script, statusio>>]_vars

(***************************************************************************)
(* SpecRefresh: refreshes a second apart, of documents the chart step      *)
(* accepts or rejects.  Script 014: --add and --once.  Script 015: the     *)
(* updater thread beside a request thread that adds a city and one that    *)
(* sets the retention to 1.                                                *)
(***************************************************************************)
RefreshAddArgs == {AddArgs("li", 0)}

RefreshSettingsForms == {SettingsForm(<<>>, <<"1">>)}

\* the forecast call returns a well-formed document, or one without
\* hourly.time
RefreshFetchOutcomes == {fo \in FetchOutcomes : ~fo.err /\ fo.data.n \in {1, 3}}

NextRefreshRun ==
    \/ \E req \in RefreshAddArgs : \E geo \in AllGeoOutcomes : cli_add(req, geo)
    \/ cli_run_once_begin
    \/ \E fo \in RefreshFetchOutcomes : cli_run_city(fo)
    \/ cli_run_once_end

NextRefreshUpdater ==
    \/ start_updater
    \/ updater_loop_while
    \/ updater_loop_load
    \/ updater_loop_next
    \/ \E fo \in RefreshFetchOutcomes : updater_loop_update(fo, "none")
    \/ updater_loop_tick
    \/ LiveAddStep("h1")
    \/ /\ \/ \E req \in RefreshSettingsForms : update_settings_begin("h2", req)
          \/ update_settings_save("h2")
          \/ send_response("h2")
       /\ UNCHANGED schedVars

NextRefresh ==
    \/ script = "014" /\ NextRefreshRun /\ UNCHANGED schedVars
    \/ script = "015" /\ NextRefreshUpdater
    \/ Tick /\ UNCHANGED schedVars

SpecRefresh == Init /\ script # "both" /\ [][NextRefresh /\ UNCHANGED <<script, statusio>>]_vars

(***************************************************************************)
(* SpecStatusFile: write_status for one city, step by step.  The request   *)
(* thread of confirm_add_city writes the first status after it has saved   *)
(* the city, the updater thread writes the outcome of each refresh; both   *)
(* go through atomic_write_json with the same temporary name               *)
(* status.json.tmp.                                                        *)
(***************************************************************************)
PlaceholderStatus ==
    [ok |-> FALSE, message |-> "Anadida. Esperando primera actualizacion..."]

\* str(e) of the FileNotFoundError of os.replace
ReplaceError == [ok |-> FALSE, message |-> "No such file or directory"]

\* confirm_add_city: write_status(cid, ok=False, "Añadida. ...")
confirm_add_city_write_status ==
    /\ statusio.pc["request"] = "idle"
    /\ statusio' = [statusio EXCEPT !.pc["request"] = "open",
                                    !.doc["request"] = PlaceholderStatus]

\* update_one_city reaches write_status: in the try block with "OK", or in
\* the except handler with the message of the failure
update_one_city_write_status(fo) ==
    /\ statusio.pc["updater"] = "idle"
    /\ statusio' = [statusio EXCEPT !.pc["updater"] = "open",
                                    !.doc["updater"] = UpdateOutcome(fo),
                                    !.except["updater"] = ~UpdateOutcome(fo).ok]

\* with open(tmp, "w") as f: the name is created, or the file it names is
\* emptied
atomic_write_json_open(w) ==
    /\ statusio.pc[w] = "open"
    /\ statusio' = [statusio EXCEPT !.pc[w] = "dump",
                                    !.fd[w] = "tmp",
                                    !.tmp = [exists |-> TRUE, content |-> <<>>]]

\* json.dump(data, f) and the end of the with block: the document is in the
\* file the handle refers to, whatever its name is by now
atomic_write_json_dump(w) ==
    /\ statusio.pc[w] = "dump"
    /\ statusio' = [statusio EXCEPT
                      !.pc[w] = "replace",
                      !.fd[w] = "none",
                      !.tmp = IF statusio.fd[w] = "tmp"
                              THEN [exists |-> TRUE, content |-> <<statusio.doc[w]>>]
                              ELSE @,
                      !.st = IF statusio.fd[w] = "status"
                             THEN [exists |-> TRUE, content |-> <<statusio.doc[w]>>]
                             ELSE @]

\* os.replace(tmp, path): status.json becomes the file named
\* status.json.tmp; FileNotFoundError when that name is gone.  The request
\* thread answers 500; update_one_city goes to its except handler, and
\* leaves by the exception when it is there already
atomic_write_json_replace(w) ==
    /\ statusio.pc[w] = "replace"
    /\ IF statusio.tmp.exists
       THEN statusio' =
              [statusio EXCEPT
                 !.st = statusio.tmp,
                 !.tmp = NoName,
                 !.fd = [v \in StatusWriters |->
                           IF statusio.fd[v] = "tmp" THEN "status"
                           ELSE IF statusio.fd[v] = "status" THEN "orphan"
                           ELSE statusio.fd[v]],
                 !.pc[w] = IF w = "request" THEN "done" ELSE "idle",
                 !.except[w] = FALSE]
       ELSE IF w = "request"
       THEN statusio' = [statusio EXCEPT !.pc[w] = "raised"]
       ELSE IF statusio.except[w]
       THEN statusio' = [statusio EXCEPT !.pc[w] = "dead"]
       ELSE statusio' = [statusio EXCEPT !.pc[w] = "open",
                                         !.doc[w] = ReplaceError,
                                         !.except[w] = TRUE]

NextStatusFile ==
    \/ confirm_add_city_write_status
    \/ \E fo \in LoopFetchOutcomes : update_one_city_write_status(fo)
    \/ \E w \in StatusWriters :
          \/ atomic_write_json_open(w)
          \/ atomic_write_json_dump(w)
          \/ atomic_write_json_replace(w)

SpecStatusFile ==
    Init /\ script = "015"
         /\ [][NextStatusFile
                /\ UNCHANGED <<script, cfgFile, repoVars, clock, dashVars, cliVars,
                               schedVars>>]_vars

\* the steps of the updater thread inside write_status
UpdaterWrites ==
    /\ \/ \E fo \in LoopFetchOutcomes : update_one_city_write_status(fo)
       \/ atomic_write_json_open("updater")
       \/ atomic_write_json_dump("updater")
       \/ atomic_write_json_replace("updater")
    /\ UNCHANGED <<script, cfgFile, repoVars, clock, dashVars, cliVars, schedVars>>

(***************************************************************************)
(* SpecStatusFileFair: SpecStatusFile with a scheduler that is not starved:*)
(* updater_loop runs in a thread of its own, no stop is requested and      *)
(* every forecast call returns or raises, so a step the updater thread can *)
(* take is taken.  Nothing is assumed of the request thread.               *)
(***************************************************************************)
SpecStatusFileFair == SpecStatusFile /\ WF_vars(UpdaterWrites)

Spec == SpecScripts

(***************************************************************************)
(* Properties                                                              *)
(***************************************************************************)
UniqueIds(cities) ==
    \A i, j \in 1..Len(cities) : i # j => cities[i].id # cities[j].id

AddErrors ==
    {"capacity", "duplicate", "geocoding_failed", "pick_out_of_range",
     "provider_error", "not_found", "missing_query"}

NoArtifacts(c) ==
    /\ latest[c] = <<>>
    /\ snaps[c] = {}
    /\ status[c] = <<>>
    /\ ~graphs[c]

\* the integer a form text stands for (<<>>: it is not an integer)
IntendedInt(text) ==
    CASE text = <<"5">>       -> <<5>>
      [] text = <<"6","0">>   -> <<60>>
      [] text = <<"-","3">>   -> <<-3>>
      [] text = <<"2">>       -> <<2>>
      [] OTHER                -> <<>>

\* C1 (SpecSequential): from an empty registry, whatever adds and removes
\* are run one after the other, the registry never holds more than
\* MAX_CITIES cities; an add attempted while it holds MAX_CITIES cities
\* reports the capacity error and leaves the registry (settings and cities)
\* as it was -- in the CLI and in the dashboard.
C1_CapacityKept ==
    /\ [](Len(Registry.cities) <= MAX_CITIES)
    /\ [][\A req \in CliAddArgs : \A geo \in AllGeoOutcomes :
            (Len(Registry.cities) = MAX_CITIES /\ cli_add(req, geo))
                => /\ cliResult'.outcome = "capacity"
                   /\ load_config(cfgFile') = Registry]_vars
    /\ [][\A h \in Handlers :
            (/\ hpc[h] = "ca_capacity"
             /\ hpc'[h] # "ca_capacity"
             /\ Len(Registry.cities) = MAX_CITIES)
                => /\ hpc'[h] = "done"
                   /\ hloc'[h].outcome = "capacity"
                   /\ load_config(cfgFile') = Registry]_vars

\* an add was refused on a full registry
C1_Witness ==
    /\ cliResult.cmd = "add"
    /\ cliResult.outcome = "capacity"
    /\ Len(Registry.cities) = MAX_CITIES

\* C2 (SpecDash): with add confirmations running concurrently, the persisted
\* registry never holds more than MAX_CITIES cities.
C2_DashCapacityKept == Len(Registry.cities) <= MAX_CITIES

\* C3 (SpecScripts): the ids of the registry are pairwise different in every
\* reachable state; an add that reaches the duplicate check with an id the
\* registry already holds reports the duplicate error and leaves the file
\* as it was -- in the CLI and in the dashboard with concurrent requests.
C3_UniqueIds ==
    /\ [](UniqueIds(Registry.cities))
    /\ [][\A h \in Handlers :
            (/\ hpc[h] = "ca_append"
             /\ hpc'[h] # "ca_append"
             /\ hloc[h].cid \in CityIds(Registry.cities))
                => /\ hpc'[h] = "done"
                   /\ hloc'[h].outcome = "duplicate"
                   /\ cfgFile' = cfgFile]_vars
    /\ [][\A req \in CliAddArgs : \A geo \in AllGeoOutcomes :
            (/\ script = "014"
             /\ cli_add(req, geo)
             /\ Len(Registry.cities) < MAX_CITIES
             /\ ~geo.err
             /\ req.pick >= 0 /\ req.pick < Len(geo.results)
             /\ CityId(geo.results[req.pick + 1]) \in CityIds(Registry.cities))
                => /\ cliResult'.outcome = "duplicate"
                   /\ load_config(cfgFile') = Registry]_vars

\* two requests add the same place: one has answered "duplicate" while the
\* other, which appended the city, has not yet written its first status
C3_Witness ==
    \E h1, h2 \in Handlers :
        /\ h1 # h2
        /\ hpc[h1] = "done" /\ hloc[h1].outcome = "duplicate"
        /\ hpc[h2] = "ca_status" /\ hloc[h2].cid = hloc[h1].cid

\* C4 (SpecScripts): an add that fails reports one of the error outcomes and
\* has not changed the persisted settings and registry; an add reports
\* success only when it has saved the registry with the city appended.
C4_FailedAddChangesNothing ==
    /\ [][\A h \in Handlers :
            (hpc[h] # "done" /\ hpc'[h] = "done" /\ hloc'[h].req.op = "confirm_add")
                => \/ /\ hloc'[h].outcome = "ok"
                      /\ hloc'[h].wrote
                   \/ /\ hloc'[h].outcome \in AddErrors
                      /\ ~hloc'[h].wrote
                      /\ load_config(cfgFile') = Registry]_vars
    /\ [][\A h \in Handlers :
            (hpc'[h] # hpc[h] /\ load_config(cfgFile') # Registry)
                => /\ hloc'[h].wrote
                   /\ hloc[h].req.op = "confirm_add" =>
                        /\ hpc'[h] = "ca_status"
                        /\ Len(load_config(cfgFile').cities) = Len(Registry.cities) + 1]_vars
    /\ [][\A req \in CliAddArgs : \A geo \in AllGeoOutcomes :
            (script = "014" /\ cli_add(req, geo))
                => \/ /\ cliResult'.outcome = "ok"
                      /\ Len(load_config(cfgFile').cities) = Len(Registry.cities) + 1
                   \/ /\ cliResult'.outcome \in AddErrors
                      /\ load_config(cfgFile') = Registry]_vars

\* a dashboard add has failed on a registry that holds cities
C4_Witness ==
    \E h \in Handlers :
        /\ hpc[h] = "done"
        /\ hloc[h].req.op = "confirm_add"
        /\ hloc[h].outcome = "duplicate"
        /\ Registry.cities # <<>>

\* C5 (SpecScripts): remove(target) removes exactly one city, the others
\* keeping their order, whenever target is a valid index or the id of a
\* tracked city, and reports not-found, with the registry unchanged,
\* otherwise; a target made only of digits counts as an index only -- in the
\* CLI and in the dashboard.
C5_Removable(cities, target) ==
    \/ IsDigit(target) /\ DecValue(target) < Len(cities)
    \/ ~IsDigit(target) /\ target \in CityIds(cities)

C5_RemoveByIdOrIndex ==
    [][/\ \A target \in CliRemoveTargets :
            (script = "014" /\ cli_remove(target))
                => IF C5_Removable(Registry.cities, target)
                   THEN /\ cliResult'.outcome = "ok"
                        /\ \E i \in 1..Len(Registry.cities) :
                              load_config(cfgFile').cities = RemoveAt(Registry.cities, i)
                   ELSE /\ cliResult'.outcome = "not_found"
                        /\ load_config(cfgFile') = Registry
       /\ \A h \in Handlers :
            (hpc[h] = "rm_filter" /\ hpc'[h] # "rm_filter")
                => IF C5_Removable(Registry.cities, hloc[h].cid)
                   THEN /\ hpc'[h] = "rm_purge"
                        /\ \E i \in 1..Len(Registry.cities) :
                              load_config(cfgFile').cities = RemoveAt(Registry.cities, i)
                   ELSE /\ hloc'[h].outcome = "not_found"
                        /\ load_config(cfgFile') = Registry]_vars

\* C6 (SpecRepo): when a remove of a tracked city has completed (the CLI
\* command, or the dashboard request after its purge), no latest payload,
\* snapshot, status record or chart of that city is left.
C6_RemovePurges ==
    [][\A c \in AllIds :
        (\/ /\ \E target \in RepoRemoveTargets : cli_remove(target)
            /\ cliResult'.outcome = "ok"
            /\ cliResult'.id = c
         \/ \E h \in Handlers :
               /\ hpc[h] = "rm_purge" /\ hpc'[h] = "done"
               /\ hloc[h].cid = c)
            => NoArtifacts(c)']_vars

\* C7 (SpecSettings): the settings request stores max(30, value) as
\* interval_seconds and max(1, value) as snapshot_retention when the text of
\* the field is an integer, and leaves the field as it was when it is not;
\* either field is treated independently of the other.
C7_SettingsClamped ==
    [][\A h \in Handlers :
        (hpc[h] = "st_save" /\ hpc'[h] = "done")
            => LET old == Registry.settings
                   new == load_config(cfgFile').settings
                   iv == IntendedInt(hloc[h].req.interval_seconds)
                   rt == IntendedInt(hloc[h].req.snapshot_retention)
               IN  /\ new.interval_seconds =
                        IF iv # <<>> THEN Max(30, iv[1]) ELSE old.interval_seconds
                   /\ new.snapshot_retention =
                        IF rt # <<>> THEN Max(1, rt[1]) ELSE old.snapshot_retention]_vars

\* interval "x" was ignored and retention "-3" was stored as 1 by one request
C7_Witness ==
    \E h \in Handlers :
        /\ hpc[h] = "done"
        /\ hloc[h].req = SettingsForm(<<"x">>, <<"-","3">>)
        /\ Registry.settings.snapshot_retention = 1
        /\ Registry.settings.interval_seconds = 60

\* C8 (SpecSettings): after a settings request, load returns the new value
\* of a field that was given as an integer of at least its floor, and
\* everything else as it was: forecast_hours, timezone, a field that was not
\* given as an integer, and the list of cities.
C8_SettingsFrame ==
    [][\A h \in Handlers :
        (hpc[h] = "st_save" /\ hpc'[h] = "done")
            => LET old == Registry
                   new == load_config(cfgFile')
                   iv == IntendedInt(hloc[h].req.interval_seconds)
                   rt == IntendedInt(hloc[h].req.snapshot_retention)
               IN  /\ new.cities = old.cities
                   /\ new.settings.forecast_hours = old.settings.forecast_hours
                   /\ new.settings.timezone = old.settings.timezone
                   /\ DOMAIN new.settings = DOMAIN old.settings
                   /\ iv = <<>> => new.settings.interval_seconds = old.settings.interval_seconds
                   /\ rt = <<>> => new.settings.snapshot_retention = old.settings.snapshot_retention
                   /\ (iv # <<>> /\ iv[1] >= 30) => new.settings.interval_seconds = iv[1]
                   /\ (rt # <<>> /\ rt[1] >= 1) => new.settings.snapshot_retention = rt[1]]_vars

\* interval 60 was stored while the registry holds a city
C8_Witness ==
    \E h \in Handlers :
        /\ hpc[h] = "done"
        /\ hloc[h].req = SettingsForm(<<"6","0">>, <<>>)
        /\ Registry.settings.interval_seconds = 60
        /\ Registry.settings.snapshot_retention = 2
        /\ Registry.cities # <<>>

\* C9 (SpecRepo): when the last M calls of save_latest_and_snapshot for a
\* city all ran with retention N >= 1 and M > N, exactly N snapshots are
\* left; after every call at most N snapshots are left, N being its
\* retention.
C9_RetentionExact ==
    \A c \in AllIds :
        LET h == hist[c]
        IN  /\ \A N \in 1..MaxHist :
                 (Len(h) > N /\ \A i \in 1..Len(h) : h[i].retention = N)
                    => Cardinality(snaps[c]) = N
            /\ (h # <<>> /\ snaps[c] # {})
                    => Cardinality(snaps[c]) <= h[Len(h)].retention

\* C10 (SpecRepo): after any calls of save_latest_and_snapshot for a city,
\* latest.json holds the data of the last call; when the last two calls ran
\* with retention 1, exactly one snapshot is left and it holds the data of
\* the last call.
C10_LatestIsLastSave ==
    \A c \in AllIds :
        LET h == hist[c]
            n == Len(hist[c])
        IN  /\ n >= 1 => latest[c] = <<h[n].data>>
            /\ (n >= 2 /\ h[n].retention = 1 /\ h[n - 1].retention = 1)
                  => \E s \in snaps[c] : snaps[c] = {s} /\ s.data = h[n].data

\* two calls with retention 1 and different data, in different seconds
C10_Witness ==
    \E c \in AllIds :
        LET h == hist[c]
            n == Len(hist[c])
        IN  /\ n >= 2
            /\ h[n].retention = 1 /\ h[n - 1].retention = 1
            /\ h[n].data # h[n - 1].data
            /\ \E s \in snaps[c] : s.name > 0 /\ s.data = h[n].data
\* the ids of a list of cities, in its order
IdSeq(cities) == [i \in 1..Len(cities) |-> cities[i].id]

\* what one refresh of city c must leave behind, given what the forecast
\* call did; noTime is the message of the chart step on a document without
\* hourly.time
RefreshedAs(c, fo, noTime) ==
    IF fo.err
    THEN status'[c] = <<[ok |-> FALSE, message |-> "provider error"]>>
    ELSE IF ~fo.data.hourly_time
    THEN status'[c] = <<[ok |-> FALSE, message |-> noTime]>>
    ELSE /\ status'[c] = <<[ok |-> TRUE, message |-> "OK"]>>
         /\ latest'[c] = <<fo.data>>
         /\ \E f \in snaps'[c] : f.name = clock /\ f.data = fo.data
         /\ graphs'[c]

\* C11 (SpecLoops): in one cycle every city of the loaded list is attempted
\* whatever happened to the cities before it; a city whose forecast call or
\* chart step fails ends its step with status ok=false and the error
\* message, a city whose step succeeds ends it with status ok=true and with
\* latest.json, a snapshot and the charts written -- in the updater thread
\* and in run_loop.
C11_FaultIsolation ==
    /\ [][\A fo \in LoopFetchOutcomes :
            (script = "015" /\ updater_loop_update(fo, "none"))
                => RefreshedAs(sloc.cities[sloc.idx + 1].id, fo, "Sin hourly.time")]_vars
    /\ [][\A fo \in RunFetchOutcomes :
            (script = "014" /\ cli_run_city(fo))
                => RefreshedAs(cliRun.cities[cliRun.idx].id, fo,
                               "El JSON no trae hourly.time")]_vars
    /\ [][(spc = "next" /\ spc' = "sleep" /\ ~stop)
            => sloc.done = IdSeq(sloc.cities)]_vars
    /\ [][(cliPc = "cycle" /\ cliPc' # "cycle" /\ cliResult'.outcome # "interrupted")
            => cliRun.done = IdSeq(cliRun.cities)]_vars

\* a cycle over two cities has ended: the first failed, the second succeeded
C11_Witness ==
    /\ spc = "sleep"
    /\ Len(sloc.done) = 2
    /\ status[sloc.done[1]] = <<[ok |-> FALSE, message |-> "provider error"]>>
    /\ status[sloc.done[2]] = <<[ok |-> TRUE, message |-> "OK"]>>
    /\ latest[sloc.done[2]] # <<>>

\* C12 (SpecFaults): as long as no stop is requested the updater thread is
\* inside its loop: nothing raised while a city is refreshed or while
\* cities.json is read ends it.
C12_UpdaterKeepsCycling == ~stop => spc \notin {"dead", "exited"}

\* C13 (SpecLoops): once update_one_city has completed for a city of the
\* registry, the status record of the city is the outcome of the last
\* completed update, in every interleaving with the request threads.
C13_StatusIsLastAttempt ==
    \A c \in CityIds(Registry.cities) : last[c] # <<>> => status[c] = last[c]

\* C14 (SpecShared): a load of cities.json never runs on a file that a save
\* has opened and not yet written.
C14_LoadSeesWholeFile ==
    [][(spc = "load" /\ spc' # "load") => torn = <<>>]_vars

\* C15 (SpecHandlers): every save of a request thread writes the document
\* that is in the file at that moment with only the request's own change
\* applied -- the city appended, the city filtered out, the settings field
\* replaced -- so that no change saved by the other thread is lost.
C15_NoLostUpdate ==
    [][\A h \in Handlers :
        LET old == Registry
            new == load_config(cfgFile')
            n == Len(new.cities)
            iv == IntendedInt(hloc[h].req.interval_seconds)
            rt == IntendedInt(hloc[h].req.snapshot_retention)
        IN  /\ (hpc[h] = "ca_append" /\ hpc'[h] = "ca_status")
                => /\ n = Len(old.cities) + 1
                   /\ SubSeq(new.cities, 1, n - 1) = old.cities
                   /\ new.cities[n].id = hloc[h].cid
                   /\ new.settings = old.settings
            /\ (hpc[h] = "rm_filter" /\ hpc'[h] = "rm_purge")
                => /\ new.cities = SelectSeq(old.cities, LAMBDA c : c.id # hloc[h].cid)
                   /\ new.settings = old.settings
            /\ (hpc[h] = "st_save" /\ hpc'[h] = "done")
                => /\ new.cities = old.cities
                   /\ new.settings.interval_seconds =
                        IF iv # <<>> THEN Max(30, iv[1]) ELSE old.settings.interval_seconds
                   /\ new.settings.snapshot_retention =
                        IF rt # <<>> THEN Max(1, rt[1]) ELSE old.settings.snapshot_retention
            /\ (hpc[h] # "done" /\ hpc'[h] = "done" /\ hloc'[h].outcome = "ok")
                => hloc'[h].wrote]_vars

\* one thread has appended Madrid and the other has saved interval 60,
\* neither has sent its answer yet; the file holds both changes
C15_Witness ==
    \E h1, h2 \in Handlers :
        /\ hpc[h1] = "ca_status" /\ hloc[h1].cid = CityId(LocMadrid)
        /\ hpc[h2] = "done" /\ hloc[h2].req.op = "settings" /\ hloc[h2].outcome = "ok"
        /\ CityIds(Registry.cities) = {CityId(LocMadrid)}
        /\ Registry.settings.interval_seconds = 60

C17_RunOnce ==
    /\ [][(cliPc = "cycle" /\ cliRun.once /\ cliResult'.outcome # "interrupted")
            => \/ /\ cliPc' = "cycle"
                  /\ cliRun'.once
                  /\ cliRun'.cities = cliRun.cities
                  /\ Len(cliRun.done) < Len(cliRun.cities)
                  /\ cliRun'.done =
                        Append(cliRun.done, cliRun.cities[Len(cliRun.done) + 1].id)
               \/ /\ cliPc' = "idle"
                  /\ cliResult' = [cmd |-> "once", outcome |-> "ok", id |-> <<>>]
                  /\ cliRun.done = IdSeq(Registry.cities)
                  /\ UNCHANGED <<cfgFile, repoVars>>]_vars
    /\ [][(cliPc = "idle" /\ cliPc' = "cycle") => cliRun'.cities = Registry.cities]_vars

\* --once has returned after refreshing two cities
C17_Witness ==
    /\ cliPc = "idle"
    /\ cliResult = [cmd |-> "once", outcome |-> "ok", id |-> <<>>]
    /\ Len(Registry.cities) = 2
    /\ \A c \in CityIds(Registry.cities) : status[c] # <<>>

\* the id of the place with this name, region and country
IdTable(name, admin1, country) ==
    CASE name = <<"M","a">> /\ admin1 = <<"M">> /\ country = <<"E">>
            -> <<"m","a","_","m","_","e">>
      [] name = <<"m","a">> /\ admin1 = <<"m">> /\ country = <<"e">>
            -> <<"m","a","_","m","_","e">>
      [] name = <<"V","a">> /\ admin1 = <<"V">> /\ country = <<"E">>
            -> <<"v","a","_","v","_","e">>
      [] name = <<"Å">> /\ admin1 = <<>> /\ country = <<>>
            -> <<"c","i","t","y">>
      [] OTHER -> <<>>

\* C18 (SpecIds): the id of every city of the registry is the id of the
\* place its query and pick resolved to, whatever the query text, the
\* country filter, the pick and the cities already there, and is not empty.
C18_IdOfPlace ==
    \A i \in 1..Len(Registry.cities) :
        LET c == Registry.cities[i]
            loc == GeoResults(c.query)[c.pick + 1]
        IN  /\ c.id # <<>>
            /\ c.id = IdTable(loc.name, loc.admin1, loc.country)

\* Valencia was added by the dashboard (which wrote its first status),
\* removed, and added again by the CLI through another query and a country
\* filter
C18_Witness ==
    /\ cliResult = [cmd |-> "add", outcome |-> "ok", id |-> CityId(LocValencia)]
    /\ status[CityId(LocValencia)] # <<>>
    /\ \E i \in 1..Len(Registry.cities) :
          /\ Registry.cities[i].id = <<"v","a","_","v","_","e">>
          /\ Registry.cities[i].query = "va"
          /\ Registry.cities[i].countryCode = "ES"
    /\ <<"c","i","t","y">> \in CityIds(Registry.cities)

\* the defaults, written out
C19_Defaults ==
    [settings |-> [interval_seconds |-> 300, forecast_hours |-> 48,
                   timezone |-> "auto", snapshot_retention |-> 24],
     cities |-> <<>>]

\* C19 (SpecSequential): a load while cities.json is missing returns the
\* defaults and leaves a file holding them; a load of an existing file
\* returns its document and leaves the file as it was.
C19_LoadDefaults ==
    /\ [][\A h \in Handlers :
            (hpc[h] = "idle" /\ hpc'[h] \in {"ca_capacity", "rm_filter"})
                => IF cfgFile.exists
                   THEN /\ cfgFile' = cfgFile
                        /\ hloc'[h].cfg = <<cfgFile.doc>>
                   ELSE /\ cfgFile' = [exists |-> TRUE, doc |-> C19_Defaults]
                        /\ hloc'[h].cfg = <<C19_Defaults>>]_vars
    /\ [][(script = "014" /\ cliResult'.outcome \in {"not_found", "provider_error"})
            => IF cfgFile.exists
               THEN cfgFile' = cfgFile
               ELSE cfgFile' = [exists |-> TRUE, doc |-> C19_Defaults]]_vars

\* a request has loaded the defaults from a missing file
C19_Witness ==
    \E h \in Handlers :
        /\ hpc[h] = "rm_filter"
        /\ hloc[h].cfg = <<C19_Defaults>>
        /\ cfgFile = [exists |-> TRUE, doc |-> C19_Defaults]

\* C20 (SpecLoops): every cycle of the updater thread starts by loading the
\* cities of the file as it is then, refreshes them one at a time in that
\* order, each once, and changes no city's documents while it sleeps;
\* run_loop loads the file at the start of every cycle as well.
C20_CycleFollowsRegistry ==
    /\ [][(spc = "load" /\ spc' = "next")
            => /\ sloc'.cities = Registry.cities
               /\ sloc'.done = <<>>]_vars
    /\ [][(spc = "update" /\ spc' = "next")
            => /\ sloc'.cities = sloc.cities
               /\ sloc'.done =
                     Append(sloc.done, sloc.cities[Len(sloc.done) + 1].id)
               /\ \A c \in AllIds \ {sloc.cities[Len(sloc.done) + 1].id} :
                     /\ latest'[c] = latest[c]
                     /\ snaps'[c] = snaps[c]
                     /\ graphs'[c] = graphs[c]]_vars
    /\ [](Len(sloc.done) <= Len(sloc.cities)
            /\ sloc.done = SubSeq(IdSeq(sloc.cities), 1, Len(sloc.done)))
    /\ [][(spc = "sleep" /\ <<spc, sloc>>' # <<spc, sloc>>)
            => /\ UNCHANGED <<repoVars, last>>
               /\ sloc'.done = sloc.done]_vars
    /\ [][(cliPc \in {"idle", "sleeping"} /\ cliPc' = "cycle")
            => /\ cliRun'.cities = Registry.cities
               /\ cliRun'.done = <<>>]_vars

\* Madrid was appended after a cycle that refreshed Lima alone began; the
\* next cycle has refreshed Lima and Madrid
C20_Witness ==
    /\ spc = "sleep"
    /\ sloc.prev = <<CityId(LocLima)>>
    /\ sloc.done = <<CityId(LocLima), CityId(LocMadrid)>>
\* C21 (SpecLive): the sleep that follows a cycle over at least one city
\* lasts the interval_seconds that cities.json held when the last city of
\* the cycle had been processed, in the updater thread and in a run_loop
\* started without --interval.
C21_SleepUsesSavedInterval ==
    /\ [][(spc = "next" /\ spc' = "sleep" /\ sloc.done # <<>>)
            => sloc'.interval = sloc.saved_interval]_vars
    /\ [][(/\ cliPc = "cycle" /\ cliPc' = "sleeping"
           /\ cliRun.interval_override = <<>> /\ cliRun.done # <<>>)
            => cliRun.interval = cliRun.saved_interval]_vars

\* C23 (SpecLive): the interval a loop sleeps for is at least 30 seconds and
\* the retention a refresh works with is at least 1.
C23_SleptIntervalAtLeast30 ==
    /\ spc = "sleep" => sloc.interval >= 30
    /\ cliPc = "sleeping" => cliRun.interval >= 30
    /\ spc = "update" => sloc.settings.snapshot_retention >= 1
    /\ cliPc = "cycle" => cliRun.settings.snapshot_retention >= 1

\* the timezone a city's forecast is to be asked with: the city's own when
\* the entry carries one, the "timezone" of the settings when the city was
\* added without one (the entry then says "auto")
C22_Timezone(settings, city) ==
    IF city.timezone \notin {"", DEFAULT_TIMEZONE} THEN city.timezone
    ELSE settings.timezone

\* C22 (SpecEdited): every forecast call of a refresh loop is made with the
\* city's own timezone when the city was added with one, and with the
\* "timezone" of the settings otherwise, whatever that setting is.
C22_EffectiveTimezone ==
    /\ [][(spc = "update" /\ spc' = "next")
            => sloc'.tz = C22_Timezone(sloc.settings, sloc.cities[sloc.idx + 1])]_vars
    /\ [][(cliPc = "cycle" /\ cliPc' = "cycle" /\ cliRun'.idx = cliRun.idx + 1)
            => cliRun'.tz = C22_Timezone(cliRun.settings, cliRun.cities[cliRun.idx])]_vars

\* C28 (SpecEdited): a city of the registry whose status.json says ok=true,
\* and that no request is removing, has a latest.json and at least one
\* snapshot, whatever snapshot_retention cities.json holds.
C28_OkHasLatestAndSnapshot ==
    \A c \in CityIds(Registry.cities) :
        (/\ status[c] # <<>>
         /\ status[c][1].ok
         /\ \A h \in Handlers : ~(hpc[h] \in {"rm_filter", "rm_purge"} /\ hloc[h].cid = c))
            => /\ latest[c] # <<>>
               /\ snaps[c] # {}

\* C25 (SpecLoops): in the dashboard, once no request is in progress and
\* the updater thread is between two cycles, a city that is not in the
\* registry has no folder: no latest.json, snapshot, status.json or charts.
C25_RemovedStaysPurged ==
    (/\ script = "015"
     /\ spc \in {"off", "sleep", "while", "load", "exited"}
     /\ \A h \in Handlers : hpc[h] = "idle")
        => \A c \in AllIds \ CityIds(Registry.cities) : ~folder[c] /\ NoArtifacts(c)

\* the (name, admin region, country) of a candidate
PlaceTriple(loc) == <<loc.name, loc.admin1, loc.country>>

\* the triples of the places the cities of a list were added as
TrackedTriples(cities) ==
    {PlaceTriple(GeoResults(cities[i].query)[cities[i].pick + 1]) : i \in 1..Len(cities)}

\* C26 (SpecSequential): an add is refused as a duplicate only when the
\* place it resolved to has the (name, admin region, country) of a city of
\* the registry: places with different triples have different ids.
C26_DuplicateMeansSamePlace ==
    /\ [][\A req \in CliAddArgs : \A geo \in AllGeoOutcomes :
            (script = "014" /\ cli_add(req, geo) /\ cliResult'.outcome = "duplicate")
                => PlaceTriple(geo.results[req.pick + 1])
                       \in TrackedTriples(Registry.cities)]_vars
    /\ [][\A h \in Handlers :
            (hpc[h] = "ca_append" /\ hpc'[h] = "done")
                => PlaceTriple(hloc[h].loc[1]) \in TrackedTriples(Registry.cities)]_vars

\* what a refresh of city c leaves when the forecast returned a document
\* that the chart step rejects with the given message
RejectedKept(c, fo, message) ==
    /\ latest'[c] = <<fo.data>>
    /\ \E f \in snaps'[c] :
          /\ f.name = clock
          /\ f.data = fo.data
          /\ \A g \in snaps'[c] : g.mtime <= f.mtime
    /\ graphs'[c] = graphs[c]
    /\ status'[c] = <<[ok |-> FALSE, message |-> message]>>

\* C27 (SpecRefresh): a refresh whose forecast call returns a document without
\* hourly.time ends with status ok=false and the message of the chart step,
\* with latest.json and the newest snapshot holding that document and the
\* charts left as they were.
C27_RejectedPayloadKept ==
    /\ [][\A fo \in RefreshFetchOutcomes :
            (script = "015" /\ ~fo.data.hourly_time /\ updater_loop_update(fo, "none"))
                => RejectedKept(sloc.cities[sloc.idx + 1].id, fo, "Sin hourly.time")]_vars
    /\ [][\A fo \in RefreshFetchOutcomes :
            (script = "014" /\ ~fo.data.hourly_time /\ cli_run_city(fo))
                => RejectedKept(cliRun.cities[cliRun.idx].id, fo,
                                "El JSON no trae hourly.time")]_vars

\* the updater thread has refreshed Lima twice, a second apart, with
\* retention 1: the charts of the first document are there, the second
\* document was rejected and is the latest and the only snapshot
C27_Witness ==
    /\ script = "015"
    /\ status[CityId(LocLima)] = <<[ok |-> FALSE, message |-> "Sin hourly.time"]>>
    /\ graphs[CityId(LocLima)]
    /\ latest[CityId(LocLima)] = <<[n |-> 3, hourly_time |-> FALSE]>>
    /\ snaps[CityId(LocLima)] =
          {[name |-> 1, mtime |-> 1, data |-> [n |-> 3, hourly_time |-> FALSE]]}

\* the only change a refresh loop may make to cities.json
DefaultsCreated ==
    \/ cfgFile' = cfgFile
    \/ ~cfgFile.exists /\ cfgFile' = FileOf(default_config)

\* C29 (SpecLoops): no step of the updater thread and no step of run_loop
\* changes cities.json, whatever the forecast calls return, except that a
\* load of a missing file creates it with the defaults.
C29_LoopLeavesRegistry ==
    /\ [][(script = "015" /\ <<spc, sloc>>' # <<spc, sloc>>) => DefaultsCreated]_vars
    /\ [][(script = "014" /\ (cliPc # "idle" \/ cliPc' # "idle")) => DefaultsCreated]_vars

\* the updater thread is in the sleep of its second cycle over Lima and
\* Madrid, the last refresh failed, and the file holds the two cities
C29_Witness ==
    /\ spc = "sleep"
    /\ Len(sloc.prev) = 2
    /\ sloc.done = sloc.prev
    /\ IdSeq(Registry.cities) = sloc.done
    /\ ~status[sloc.done[2]][1].ok
    /\ Registry.settings = default_config.settings

\* C24 (SpecStatusFile): whenever status.json exists it holds a complete
\* document, also while the request thread of confirm_add_city and the
\* updater thread write the status of the same city.
C24_StatusFileWhole == statusio.st.exists => statusio.st.content # <<>>

\* C30 (SpecStatusFileFair): with a scheduler that is not starved, the city
\* is attempted again and again (the updater thread comes back to the status
\* write of a new attempt for ever), and once the request thread has written
\* the waiting record the status becomes the outcome of an attempt.
C30_AttemptedAgainAndAgain ==
    /\ []<>(statusio.pc["updater"] = "open" /\ statusio.doc["updater"] # ReplaceError)
    /\ (statusio.pc["request"] = "done")
         ~> (statusio.st.exists /\ statusio.st.content # <<>>
               /\ statusio.st.content # <<PlaceholderStatus>>)

=============================================================================
